---- MODULE Spec2Model ----
(***************************************************************************)
(* OpenSuperFin: the signal lifecycle (orchestrator -> risk engine ->      *)
(* signal delivery -> pending-confirmation watcher) and the scheduler,     *)
(* as state machines over the file store and the event bus.                *)
(*                                                                         *)
(* Optional values (Python's `x | None`) are sequences: <<>> is None and   *)
(* <<v>> is the value v.  A file of the store is an optional record.       *)
(*                                                                         *)
(* The runtime is a single asyncio loop: code between two awaits runs      *)
(* atomically, so every action below is one such segment of a coroutine.   *)
(***************************************************************************)
EXTENDS Integers, Sequences, FiniteSets, TLC

\* ------------------------------------------------------------------ bounds
MaxTime == 3
\* how many times PendingConfirmationWatcher.start is called
MaxWatcherStarts == 2
\* how many times an already published event is published again
MaxReplays == 1
\* how many registrations the bus holds at most
MaxRegistrations == 3
\* how many publish calls are made on the bus
MaxPublishes == 1
\* how many UTC days the clock runs through
MaxDays == 2
\* how many messages the input adapters deliver
MaxTurns == 2
\* max_rounds of the tool loop (25 when not given)
MaxRounds == 2
\* how many integration.output events are published
MaxOutputs == 2
\* risk.rules.frequency.max_signals_per_day as configured (5 when not configured)
MaxSignalsPerDay == 2
\* how many times Scheduler.start is called
MaxSchedulerStarts == 2
\* clock units in one calendar minute
TicksPerMinute == 2

\* position_tracking.confirmation_timeout, in clock units
ConfirmationTimeout == 1

None == <<>>
Some(v) == <<v>>
IsSome(o) == o /= <<>>
Get(o) == o[1]

\* Signal ids in the order of their file names (Store.list_json sorts by name).
SignalOrder == <<"sig_a", "sig_b", "sig_c">>
SignalIds == {SignalOrder[i] : i \in DOMAIN SignalOrder}
Tickers == {"NVDA", "AAPL"}

\* The sort order of adapter names (Python's sorted() on str).
AdapterOrder == <<"discord", "telegram">>
AdapterNames == {AdapterOrder[i] : i \in DOMAIN AdapterOrder}
RuleNames == <<"confidence", "frequency">>

RuleOutcomes == {"pass", "fail", "raise"}
SendOutcomes == {"success", "failure", "raise"}

\* What the synthesis step can hand to the orchestrator's step 5.
Proposals ==
    { [ticker |-> "NVDA", direction |-> "buy", entry_target |-> Some(900)],
      [ticker |-> "NVDA", direction |-> "sell", entry_target |-> None],
      [ticker |-> "AAPL", direction |-> "buy", entry_target |-> Some(150)] }

VARIABLES
    now,            \* the wall clock
    outputAdapters, \* registry.get_all("output"), in registration order
    riskRules,      \* registry.get_all("risk_rule"), in registration order
    signals,        \* store: signals/<id>.json
    aiBook,         \* store: positions/ai/<ticker>.json
    audit,          \* events/<day>.jsonl, one entry per line
    tasks,          \* callbacks created by bus.publish and not yet finished
    nextId,         \* source of fresh event and task ids
    replays,        \* how many events have been published a second time
    bus,            \* AsyncIOBus: its subscriber lists and the publish calls made on it
    handled,        \* history: finished handler invocations
    sent,           \* history: calls of OutputAdapter.send
    watcher,        \* PendingConfirmationWatcher: _running and its loop task
    taskFiles,      \* store: tasks/<id>.json
    sched,          \* Scheduler: _running, _task and how often start was called
    loops,          \* the Scheduler._loop tasks that are alive
    invocations,    \* history: calls of TaskHandler.run, in call order
    humanBook,      \* store: positions/human/<ticker>.json, the files that exist
    texts,          \* history: calls of OutputAdapter.send_text
    history,        \* AIInterface._conversation_history: channel id -> messages
    turns,          \* the handle_message calls made so far, each with its tool loop
    returned,       \* history: what the tools, HTTP handlers and task handlers returned
    memories,       \* store: memories/<id>.json, each with its row of the memory index
    market,         \* store: the rows of the market_data table
    persisted       \* store: the rows of conversation_messages, in insertion order

\* what the conversational interface and the text pipeline own
chatVars == <<texts, history, turns, returned, memories, market, persisted>>
ifaceVars == <<humanBook, chatVars>>
sigVars == <<now, outputAdapters, riskRules, signals, aiBook, audit, tasks,
             nextId, replays, bus, handled, sent, watcher, ifaceVars>>
\* everything but the two books
busVars == <<now, outputAdapters, riskRules, signals, audit, tasks,
             nextId, replays, bus, handled, sent, watcher>>
schedVars == <<taskFiles, sched, loops, invocations>>
vars == <<sigVars, schedVars>>

\* ------------------------------------------------------------------ models
\* the fields of a datetime that the scheduler and cron_matches read
DateTime(t) ==
    [ year |-> 2026, month |-> 1,
      day |-> 1 + (t \div (TicksPerMinute * 1440)),
      hour |-> (t \div (TicksPerMinute * 60)) % 24,
      minute |-> (t \div TicksPerMinute) % 60,
      dow |-> (4 + (t \div (TicksPerMinute * 1440))) % 7 ]

\* datetime.now(timezone.utc).strftime("%Y-%m-%d"): the day an audit file is named after
UtcDate(t) == DateTime(t).day

\* the fields the Signal class declares
SignalFields(id, p) ==
    [ id |-> id, ticker |-> p.ticker, direction |-> p.direction,
      entry_target |-> p.entry_target,
      status |-> "proposed", risk_result |-> None,
      delivered_at |-> None, delivered_via |-> None ]

\* the fields the handlers read and assign beyond those, at their defaults
ConfirmationFields ==
    [ confirmation_status |-> "none", confirmation_due_at |-> None,
      confirmation_reminder_sent_at |-> None, delivery_errors |-> None ]

Signal(id, p) == SignalFields(id, p) @@ ConfirmationFields

Position(ticker, direction, entry_price, status, portfolio, signal_id) ==
    [ ticker |-> ticker, direction |-> direction, entry_price |-> entry_price,
      status |-> status, portfolio |-> portfolio, signal_id |-> signal_id ]

Event(id, type, sig, payload, level) ==
    [ id |-> id, type |-> type, sig |-> sig, payload |-> payload, level |-> level ]

\* a store directory with no file in it
NoFiles == [f \in {} |-> None]

\* Store.write_json on a directory: the file is created or replaced
WriteFile(dir, name, val) == [f \in DOMAIN dir \cup {name} |-> IF f = name THEN val ELSE dir[f]]

\* ------------------------------------------------------------------ effects
\* A segment of a coroutine is the sequence of its store writes and publishes,
\* in program order.
WriteSignal(s) == [op |-> "write", dir |-> "signals", key |-> s.id, val |-> s]
WritePosition(p) == [op |-> "write", dir |-> "positions/ai", key |-> p.ticker, val |-> p]
Publish(type, sig, payload, level) ==
    [op |-> "publish", dir |-> type, key |-> sig, val |-> payload, level |-> level]

Writes(effs, dir) == SelectSeq(effs, LAMBDA e : e.op = "write" /\ e.dir = dir)
Publishes(effs) == SelectSeq(effs, LAMBDA e : e.op = "publish")

RECURSIVE ApplyWrites(_, _)
ApplyWrites(files, ws) ==
    IF ws = <<>> THEN files
    ELSE ApplyWrites([files EXCEPT ![ws[1].key] = Some(ws[1].val)], Tail(ws))

\* main.py:446-467 and the constructors: who is subscribed to what.
Subscribers(type) ==
    CASE type = "signal.proposed" -> <<"risk_engine">>
      [] type = "signal.approved" -> <<"signal_delivery">>
      [] type = "integration.output" -> <<"output_dispatcher">>
      [] OTHER -> <<>>

NewTask(tid, handler, event) ==
    [ tid |-> tid, handler |-> handler, event |-> event,
      pc |-> "start", idx |-> 0, successes |-> <<>>, errors |-> <<>>,
      outcomes |-> <<>> ]

\* AsyncIOBus.publish for each publish of a segment: the event is appended to
\* the audit log and one task per subscribed callback is created.
NewEvents(effs) ==
    [ i \in 1..Len(Publishes(effs)) |->
        Event(nextId + i - 1, Publishes(effs)[i].dir, Publishes(effs)[i].key,
              Publishes(effs)[i].val, Publishes(effs)[i].level) ]

Dispatch(events) ==
    UNION { { NewTask(events[i].id, Subscribers(events[i].type)[j], events[i]) :
                j \in DOMAIN Subscribers(events[i].type) } : i \in DOMAIN events }

\* mutant: the new lines put in front of the file instead of appended
PersistInFront(log, events, ok) ==
    IF ok THEN [i \in DOMAIN events |-> events[i] @@ [file |-> UtcDate(now)]] \o log
    ELSE log

\* mutant: each line written twice
PersistTwice(log, events, ok) ==
    IF ok THEN log \o [i \in DOMAIN events |-> events[i] @@ [file |-> UtcDate(now)]]
                  \o [i \in DOMAIN events |-> events[i] @@ [file |-> UtcDate(now)]]
    ELSE log

\* AsyncIOBus._persist: one line per event appended to the file of today's UTC
\* date; when the file cannot be written (ok = FALSE) the OSError is logged
\* and nothing is appended.
Persist(log, events, ok) ==
    IF ok THEN log \o [i \in DOMAIN events |-> events[i] @@ [file |-> UtcDate(now)]]
    ELSE log

\* The store and bus after a segment whose effects are effs; ok tells whether
\* the audit file could be written.
CommitPersisting(effs, ok) ==
    /\ signals' = ApplyWrites(signals, Writes(effs, "signals"))
    /\ aiBook' = ApplyWrites(aiBook, Writes(effs, "positions/ai"))
    /\ taskFiles' = ApplyWrites(taskFiles, Writes(effs, "tasks"))
    /\ audit' = Persist(audit, NewEvents(effs), ok)
    /\ nextId' = nextId + Len(Publishes(effs))

\* The same with a writable events directory.
Commit(effs) == CommitPersisting(effs, TRUE)

Done(t, outcomes, effs) ==
    [ tid |-> t.tid, handler |-> t.handler, event |-> t.event,
      outcomes |-> outcomes, effects |-> effs, at |-> now ]

\* ------------------------------------------------------------ orchestrator
\* Orchestrator.analyze, step 5: persist the signal as proposed, publish it.
ProposeEffects(s) ==
    << WriteSignal(s), Publish("signal.proposed", s.id, Some(s), "") >>

Propose(id, p) ==
    /\ signals[id] = None
    /\ \A i \in DOMAIN audit : audit[i].sig /= id
    /\ Commit(ProposeEffects(Signal(id, p)))
    /\ tasks' = tasks \cup Dispatch(NewEvents(ProposeEffects(Signal(id, p))))
    /\ UNCHANGED <<now, bus, replays, outputAdapters, ifaceVars, riskRules, handled, sent, watcher,
                   sched, loops, invocations>>

\* AsyncIOBus.publish called again with an event that was already published:
\* it is appended to the audit log again and every subscriber gets a new task.
Redeliver(i) ==
    /\ replays < MaxReplays
    /\ audit[i].type \in {"signal.proposed", "signal.approved"}
    /\ replays' = replays + 1
    /\ LET again == Event(nextId, audit[i].type, audit[i].sig, audit[i].payload,
                       audit[i].level)
       IN /\ audit' = Persist(audit, <<again>>, TRUE)
          /\ tasks' = tasks \cup Dispatch(<<again>>)
    /\ nextId' = nextId + 1
    /\ UNCHANGED <<now, bus, outputAdapters, ifaceVars, riskRules, signals, aiBook, handled,
                   sent, watcher, schedVars>>

\* --------------------------------------------------------------- event bus
BusTypes == {"signal.proposed", "signal.approved"}
Callbacks == {"cb_a", "cb_b"}

\* AsyncIOBus.__init__; calls and last are history: the publish calls made so
\* far and, right after an unsubscribe, its arguments and the lists it found.
BusIdle ==
    [ subscribers |-> [t \in BusTypes |-> <<>>], wildcard_subscribers |-> <<>>,
      calls |-> <<>>, last |-> [op |-> "none"] ]

Registrations(b) ==
    Len(b.wildcard_subscribers)
    + Len(b.subscribers["signal.proposed"]) + Len(b.subscribers["signal.approved"])

\* list.remove(x): the list without the first element equal to x
RECURSIVE Remove(_, _)
Remove(list, x) ==
    IF list = <<>> THEN <<>>
    ELSE IF list[1] = x THEN Tail(list)
    ELSE <<list[1]>> \o Remove(Tail(list), x)

Contains(list, x) == \E i \in DOMAIN list : list[i] = x

\* AsyncIOBus.subscribe
Subscribed(b, type, cb) ==
    IF type = "*"
    THEN [b EXCEPT !.wildcard_subscribers = Append(@, cb)]
    ELSE [b EXCEPT !.subscribers[type] = Append(@, cb)]

\* mutant: every registration of the callback under the type is removed
UnsubscribedAll(b, type, cb) ==
    IF type = "*"
    THEN [b EXCEPT !.wildcard_subscribers = SelectSeq(@, LAMBDA c : c /= cb)]
    ELSE [b EXCEPT !.subscribers[type] = SelectSeq(@, LAMBDA c : c /= cb)]

\* AsyncIOBus.unsubscribe
Unsubscribed(b, type, cb) ==
    IF type = "*"
    THEN IF Contains(b.wildcard_subscribers, cb)
         THEN [b EXCEPT !.wildcard_subscribers = Remove(@, cb)]
         ELSE b
    ELSE IF Contains(b.subscribers[type], cb)
         THEN [b EXCEPT !.subscribers[type] = Remove(@, cb)]
         ELSE b

BusSubscribe(type, cb) ==
    /\ Registrations(bus) < MaxRegistrations
    /\ bus' = [Subscribed(bus, type, cb) EXCEPT !.last = [op |-> "none"]]
    /\ UNCHANGED <<now, outputAdapters, ifaceVars, riskRules, signals, aiBook, audit, tasks,
                   nextId, replays, handled, sent, watcher, schedVars>>

BusUnsubscribe(type, cb) ==
    /\ bus' = [Unsubscribed(bus, type, cb) EXCEPT
                 !.last = [op |-> "unsubscribe", type |-> type, cb |-> cb,
                           subscribers |-> bus.subscribers,
                           wildcard_subscribers |-> bus.wildcard_subscribers]]
    /\ UNCHANGED <<now, outputAdapters, ifaceVars, riskRules, signals, aiBook, audit, tasks,
                   nextId, replays, handled, sent, watcher, schedVars>>

\* mutant: the wildcard subscribers are left out
ExactCallbacks(b, type) == b.subscribers[type]

\* publish: callbacks = the type's subscribers + the wildcard subscribers
BusCallbacks(b, type) == b.subscribers[type] \o b.wildcard_subscribers

\* publish: one task per callback, in list order; with no callback publish
\* returns at once.  `persisted` keeps whether _persist wrote the line.
PublishCall(b, id, type, ok) ==
    [ id |-> id, type |-> type, at |-> now, persisted |-> ok,
      tasks |-> [k \in DOMAIN BusCallbacks(b, type) |->
                   [cb |-> BusCallbacks(b, type)[k], state |-> "pending"]],
      returned |-> (BusCallbacks(b, type) = <<>>) ]

\* AsyncIOBus.publish up to its await
BusPublish(type, ok) ==
    /\ Len(bus.calls) < MaxPublishes
    /\ audit' = Persist(audit, <<Event(nextId, type, "", None, "")>>, ok)
    /\ nextId' = nextId + 1
    /\ bus' = [bus EXCEPT !.calls = Append(@, PublishCall(bus, nextId, type, ok)),
                          !.last = [op |-> "none"]]
    /\ UNCHANGED <<now, outputAdapters, ifaceVars, riskRules, signals, aiBook, tasks,
                   replays, handled, sent, watcher, schedVars>>

\* mutant: gather without return_exceptions, the first exception ends the wait
\* and the handlers still pending are cancelled
AfterHandlerCancelling(ts, k, outcome) ==
    [ j \in DOMAIN ts |->
        IF j = k THEN [ts[j] EXCEPT !.state = IF outcome = "raise" THEN "raised" ELSE "returned"]
        ELSE IF outcome = "raise" /\ ts[j].state = "pending"
        THEN [ts[j] EXCEPT !.state = "cancelled"]
        ELSE ts[j] ]

\* _safe_invoke: the callback returned, or raised and the exception was logged;
\* either way the task of this callback is over and the others are untouched.
AfterHandler(ts, k, outcome) ==
    [ts EXCEPT ![k].state = IF outcome = "raise" THEN "raised" ELSE "returned"]

\* the k-th callback of publish call c ends
BusHandlerEnd(c, k, outcome) ==
    /\ bus.calls[c].tasks[k].state = "pending"
    /\ bus' = [bus EXCEPT !.calls[c].tasks = AfterHandler(@, k, outcome),
                          !.last = [op |-> "none"]]
    /\ UNCHANGED <<now, outputAdapters, ifaceVars, riskRules, signals, aiBook, audit, tasks,
                   nextId, replays, handled, sent, watcher, schedVars>>

\* asyncio.gather(*tasks, return_exceptions=True) is over when every task is
GatherDone(ts) == \A k \in DOMAIN ts : ts[k].state /= "pending"

\* publish returns to its caller
BusPublishReturn(c) ==
    /\ ~bus.calls[c].returned
    /\ GatherDone(bus.calls[c].tasks)
    /\ bus' = [bus EXCEPT !.calls[c].returned = TRUE, !.last = [op |-> "none"]]
    /\ UNCHANGED <<now, outputAdapters, ifaceVars, riskRules, signals, aiBook, audit, tasks,
                   nextId, replays, handled, sent, watcher, schedVars>>

\* ------------------------------------------------------------- risk engine
\* One RuleEvaluation per registered rule; a rule that raises is recorded as
\* not passed.
Evaluations(outs) ==
    [ i \in DOMAIN riskRules |->
        IF outs[i] = "raise"
        THEN [rule_name |-> riskRules[i], passed |-> FALSE,
              reason |-> "Rule raised an exception"]
        ELSE [rule_name |-> riskRules[i], passed |-> (outs[i] = "pass"),
              reason |-> "rule"] ]

\* mutant: any() where the code has all()
AnyPassed(evaluations) == \E i \in DOMAIN evaluations : evaluations[i].passed

AllPassed(evaluations) == \A i \in DOMAIN evaluations : evaluations[i].passed

RiskResult(evaluations) ==
    [approved |-> AllPassed(evaluations), evaluations |-> evaluations]

\* PortfolioTracker.ai_open_position
AiOpenPosition(s) ==
    Position(s.ticker,
             IF s.direction = "buy" THEN "long" ELSE "short",
             IF IsSome(s.entry_target) /\ Get(s.entry_target) /= 0
                 THEN Get(s.entry_target) ELSE 0,
             "monitoring", "ai", Some(s.id))

ApprovedSignal(s, evaluations) ==
    [s EXCEPT !.status = "approved",
              !.risk_result = Some(RiskResult(evaluations)),
              !.delivery_errors = None]

RejectedSignal(s, evaluations) ==
    [s EXCEPT !.status = "rejected",
              !.risk_result = Some(RiskResult(evaluations))]

\* mutant: the approved event is published before the position is opened
ApproveEffectsPublishFirst(s, evaluations) ==
    << WriteSignal(ApprovedSignal(s, evaluations)),
       Publish("signal.approved", s.id, Some(ApprovedSignal(s, evaluations)), ""),
       WritePosition(AiOpenPosition(ApprovedSignal(s, evaluations))) >>

ApproveEffects(s, evaluations) ==
    << WritePosition(AiOpenPosition(ApprovedSignal(s, evaluations))),
       WriteSignal(ApprovedSignal(s, evaluations)),
       Publish("signal.approved", s.id, Some(ApprovedSignal(s, evaluations)), "") >>

\* mutant: the rejected branch opens the AI position too
RejectEffectsOpeningPosition(s, evaluations) ==
    << WritePosition(AiOpenPosition(s)),
       WriteSignal(RejectedSignal(s, evaluations)),
       Publish("signal.rejected", s.id, Some(RejectedSignal(s, evaluations)), "") >>

\* mutant: the rejected event is published before the record is saved
RejectEffectsPublishFirst(s, evaluations) ==
    << Publish("signal.rejected", s.id, Some(RejectedSignal(s, evaluations)), ""),
       WriteSignal(RejectedSignal(s, evaluations)) >>

RejectEffects(s, evaluations) ==
    << WriteSignal(RejectedSignal(s, evaluations)),
       Publish("signal.rejected", s.id, Some(RejectedSignal(s, evaluations)), "") >>

RiskEffects(s, evaluations) ==
    IF AllPassed(evaluations)
    THEN ApproveEffects(s, evaluations)
    ELSE RejectEffects(s, evaluations)

\* RiskEngine._handle_signal: no await before the publish, one segment.
\* A payload that does not parse as a Signal ends the handler at once.
\* ok tells whether the audit file could be written by the publish.
HandleSignalPersisting(t, outs, ok) ==
    /\ t \in tasks /\ t.handler = "risk_engine"
    /\ LET effs == IF IsSome(t.event.payload)
                   THEN RiskEffects(Get(t.event.payload), Evaluations(outs))
                   ELSE <<>>
       IN /\ CommitPersisting(effs, ok)
          /\ tasks' = (tasks \ {t}) \cup Dispatch(NewEvents(effs))
          /\ handled' = handled \cup {Done(t, outs, effs)}
    /\ UNCHANGED <<now, bus, replays, outputAdapters, ifaceVars, riskRules, sent, watcher,
                   sched, loops, invocations>>

\* The handler with a writable events directory.
HandleSignal(t, outs) == HandleSignalPersisting(t, outs, TRUE)

\* FrequencyRule._count_todays_signals: the signal.approved lines of today's
\* file; 0 when the file cannot be opened (the OSError is passed over).
CountTodaysSignals(readable) ==
    IF readable
    THEN Cardinality({i \in DOMAIN audit :
                        audit[i].file = UtcDate(now) /\ audit[i].type = "signal.approved"})
    ELSE 0

\* FrequencyRule.evaluate
FrequencyEvaluate(readable) ==
    IF CountTodaysSignals(readable) < MaxSignalsPerDay THEN "pass" ELSE "fail"

\* RiskEngine._handle_signal with the rules' own verdicts: the frequency rule
\* is evaluated on the audit log, any other rule may say anything.
HandleSignalCounting(t, outs, readable, ok) ==
    /\ \A i \in DOMAIN riskRules :
         riskRules[i] = "frequency" => outs[i] = FrequencyEvaluate(readable)
    /\ HandleSignalPersisting(t, outs, ok)

\* ------------------------------------------------------------ AI interface
Channels == {"main", "side"}
Sources == {"telegram", "discord"}

\* the fixed replies of the loop and of handle_message
NotSure == "I'm not sure how to help with that."
NoFinal == "I ran the requested tools, but couldn't produce a final response."
RoundLimit == "I hit an internal tool-call round limit."
Sorry == "Sorry, I couldn't process that right now. Please try again."

\* what result.tool_calls can be when has_tool_calls: one call or several,
\* with or without an id, of a built-in tool or of a tool nobody knows
ToolCallLists ==
    { << [id |-> "call_1", name |-> "get_price"] >>,
      << [id |-> "call_1", name |-> "no_such_tool"], [id |-> "", name |-> "get_price"] >> }

\* what llm.tool_call can do: text, no text, tool calls, an exception
LlmResults ==
    { [kind |-> k, tool_calls |-> <<>>] : k \in {"text", "empty", "raise"} }
        \cup { [kind |-> "calls", tool_calls |-> l] : l \in ToolCallLists }

\* an LLM that asks for one tool call at a time
OneCallResults == {r \in LlmResults : Len(r.tool_calls) <= 1}

\* what llm.complete can do
CompleteResults == {"text", "empty", "raise"}

\* what _execute_tool returns for a call: a result, "Error executing ..." when
\* the tool raised, "Unknown tool: ..." when no built-in or plugin has the name
ToolOutcomes(tc) == IF tc.name = "no_such_tool" THEN {"unknown"} ELSE {"ok", "error"}

\* a message of a conversation
Message(role, turn, content, tool_calls, tool_call_id) ==
    [ role |-> role, turn |-> turn, content |-> content, tool_calls |-> tool_calls,
      tool_call_id |-> tool_call_id ]

\* mutant: the tool message carries the name of the tool
ToolCallIdByName(tc, idx) == tc.name

\* str(tc.get("id") or f"{tool_name or 'tool'}_{idx + 1}"); idx counts from 1 here
ToolCallId(tc, idx) ==
    IF tc.id /= "" THEN tc.id
    ELSE IF idx = 1 THEN tc.name \o "_1" ELSE tc.name \o "_2"

\* a handle_message call at its first await: the llm.tool_call request is out
NewTurn(channel, source) ==
    [ channel |-> channel, source |-> source, pc |-> "tool_call", requests |-> 1,
      round_calls |-> <<>>, idx |-> 0, messages |-> <<>>, executed |-> <<>>,
      ran |-> FALSE, notice |-> FALSE, reply |-> None, adapter |-> None ]

\* _append_message on the channel's history
AppendMessage(h, channel, m) == [h EXCEPT ![channel] = Append(@, m)]

\* the reply of handle_scheduled_prompt when the loop raised, and the reply a
\* scheduled run gives to ask for silence (the run_prompt tool's description)
SorryScheduled == "Sorry, I couldn't process that scheduled run right now."
NoReply == "[NO_REPLY]"

\* a scheduled run's LLM can answer all a chat turn's LLM can, and [NO_REPLY]
ScheduledResults == OneCallResults \cup {[kind |-> "no_reply", tool_calls |-> <<>>]}

\* handle_scheduled_prompt runs the loop with persist_intermediate_messages=False
Scheduled(t) == turns[t].source = "scheduler"

\* a row of the conversations table: the channel and the message's fields
ConversationRow(channel, m) == [channel_id |-> channel] @@ m

\* Store.load_conversation_history: the rows of each channel in insertion order
LoadConversationHistory ==
    [ c \in Channels |->
        LET rows == SelectSeq(persisted, LAMBDA r : r.channel_id = c)
        IN [ i \in DOMAIN rows |->
               Message(rows[i].role, rows[i].turn, rows[i].content, rows[i].tool_calls,
                       rows[i].tool_call_id) ] ]

\* _append_message: the message joins the in-memory history, then the store
\* inserts its row; ok tells whether the insert succeeded
AppendPersisting(channel, m, ok) ==
    /\ history' = AppendMessage(history, channel, m)
    /\ persisted' = IF ok THEN Append(persisted, ConversationRow(channel, m)) ELSE persisted

\* An input adapter calls handle_message: the user message is appended and
\* the tool loop sends its first request.  An adapter awaits the callback of
\* one message before it takes the next, so it has one call in flight at most.
\* The append is outside the try: when it raises, the call ends there.
HandleMessagePersisting(source, channel, ok) ==
    /\ Len(turns) < MaxTurns
    /\ \A t \in DOMAIN turns : turns[t].source = source => turns[t].pc = "done"
    /\ AppendPersisting(channel, Message("user", Len(turns) + 1, "text", <<>>, ""), ok)
    /\ turns' = Append(turns, IF ok THEN NewTurn(channel, source)
                              ELSE [NewTurn(channel, source) EXCEPT !.pc = "done"])
    /\ UNCHANGED <<busVars, aiBook, humanBook, texts, returned, memories, market, schedVars>>

HandleMessage(source, channel) == HandleMessagePersisting(source, channel, TRUE)

\* AIRunnerHandler.run calls handle_scheduled_prompt for the task's channel:
\* the loop sends its first request; nothing is appended.  The scheduler loop
\* awaits one handler at a time.
RunPrompt(channel, adapter) ==
    /\ Len(turns) < MaxTurns
    /\ \A t \in DOMAIN turns : Scheduled(t) => turns[t].pc = "done"
    /\ turns' = Append(turns, [NewTurn(channel, "scheduler") EXCEPT !.adapter = adapter])
    /\ UNCHANGED <<busVars, aiBook, humanBook, texts, history, returned, memories, market,
                   persisted, schedVars>>

\* The loop returns `reply`.  handle_message appends it as the final reply,
\* outside the try.  handle_scheduled_prompt appends it when it is not empty
\* and returns it to AIRunnerHandler.run, which publishes it next.
RepliedPersisting(t, reply, ok) ==
    IF Scheduled(t)
    THEN IF reply /= ""
         THEN /\ AppendPersisting(turns[t].channel, Message("assistant", t, reply, <<>>, ""), ok)
              /\ turns' = [turns EXCEPT ![t].pc = IF ok THEN "publish" ELSE "done",
                                        ![t].reply = IF ok THEN Some(reply) ELSE None]
         ELSE /\ turns' = [turns EXCEPT ![t].pc = "publish", ![t].reply = Some(reply)]
              /\ UNCHANGED <<history, persisted>>
    ELSE /\ AppendPersisting(turns[t].channel, Message("assistant", t, reply, <<>>, ""), ok)
         /\ turns' = [turns EXCEPT ![t].pc = "done",
                                   ![t].reply = IF ok THEN Some(reply) ELSE None]

\* An exception leaves the loop: handle_message's except answers Sorry and
\* appends nothing more, handle_scheduled_prompt's except returns its own text.
Raised(t, after) ==
    turns' = [turns EXCEPT ![t] =
                IF Scheduled(t)
                THEN [after EXCEPT !.pc = "publish", !.reply = Some(SorryScheduled)]
                ELSE [after EXCEPT !.pc = "done", !.reply = Some(Sorry)]]

\* llm.tool_call returns or raises
ToolCallReturnsPersisting(t, result, ok) ==
    /\ turns[t].pc = "tool_call"
    /\ CASE result.kind = "raise" ->
              /\ Raised(t, turns[t])
              /\ UNCHANGED <<history, persisted>>
         [] result.kind = "text" -> RepliedPersisting(t, "text", ok)
         [] result.kind = "no_reply" -> RepliedPersisting(t, NoReply, ok)
         [] result.kind = "empty" /\ ~turns[t].ran -> RepliedPersisting(t, NotSure, ok)
         [] result.kind = "empty" /\ turns[t].ran ->
              /\ turns' = [turns EXCEPT ![t].pc = "final"]
              /\ UNCHANGED <<history, persisted>>
         [] result.kind = "calls" ->
              LET m == Message("assistant", t, "", result.tool_calls, "")
                  after == [turns[t] EXCEPT !.pc = "tool", !.idx = 1,
                                            !.round_calls = result.tool_calls,
                                            !.messages = Append(@, m)]
              IN IF Scheduled(t)
                 THEN /\ turns' = [turns EXCEPT ![t] = after]
                      /\ UNCHANGED <<history, persisted>>
                 ELSE /\ AppendPersisting(turns[t].channel, m, ok)
                      /\ IF ok THEN turns' = [turns EXCEPT ![t] = after]
                               ELSE Raised(t, after)
    /\ UNCHANGED <<busVars, aiBook, humanBook, texts, returned, memories, market, schedVars>>

ToolCallReturns(t, result) == ToolCallReturnsPersisting(t, result, TRUE)

\* for _ in range(max_rounds)
RoundsLeft(requests) == requests < MaxRounds

\* _execute_tool returns for the call at idx: its tool message is appended;
\* after the last call of the round the next request goes out, or at the
\* round limit the notice is appended and the wrap-up is asked for.
ToolReturnsPersisting(t, outcome, ok) ==
    /\ turns[t].pc = "tool"
    /\ outcome \in ToolOutcomes(turns[t].round_calls[turns[t].idx])
    /\ LET tc == turns[t].round_calls[turns[t].idx]
           m == Message("tool", t, outcome, <<>>, ToolCallId(tc, turns[t].idx))
           last == turns[t].idx = Len(turns[t].round_calls)
           after == [turns[t] EXCEPT
                       !.messages = Append(@, m),
                       !.executed = Append(@, [request |-> turns[t].requests,
                                               idx |-> turns[t].idx, name |-> tc.name])]
           next == IF ~last THEN [after EXCEPT !.idx = @ + 1]
                   ELSE IF RoundsLeft(after.requests)
                   THEN [after EXCEPT !.ran = TRUE, !.pc = "tool_call", !.requests = @ + 1,
                                      !.round_calls = <<>>, !.idx = 0]
                   ELSE [after EXCEPT !.ran = TRUE, !.pc = "wrapup", !.notice = TRUE,
                                      !.round_calls = <<>>, !.idx = 0,
                                      !.messages = Append(@, Message("user", t, "notice", <<>>, ""))]
       IN IF Scheduled(t)
          THEN /\ turns' = [turns EXCEPT ![t] = next]
               /\ UNCHANGED <<history, persisted>>
          ELSE /\ AppendPersisting(turns[t].channel, m, ok)
               /\ IF ok THEN turns' = [turns EXCEPT ![t] = next]
                        ELSE Raised(t, after)
    /\ UNCHANGED <<busVars, aiBook, humanBook, texts, returned, memories, market, schedVars>>

ToolReturns(t, outcome) == ToolReturnsPersisting(t, outcome, TRUE)

\* `return await llm.complete(messages)` at the round limit, and its except
WrapUp(out) ==
    CASE out = "text" -> "text"
      [] out = "empty" -> ""
      [] out = "raise" -> RoundLimit

\* the final-response request after a round without text
FinalResponse(out) == IF out = "text" THEN "text" ELSE NoFinal

\* llm.complete returns or raises
CompleteReturnsPersisting(t, out, ok) ==
    /\ turns[t].pc \in {"final", "wrapup"}
    /\ RepliedPersisting(t, IF turns[t].pc = "wrapup" THEN WrapUp(out) ELSE FinalResponse(out),
                         ok)
    /\ UNCHANGED <<busVars, aiBook, humanBook, texts, returned, memories, market, schedVars>>

CompleteReturns(t, out) == CompleteReturnsPersisting(t, out, TRUE)

\* ------------------------------------------------------- portfolio tracker
\* the prices and sizes a caller passes
Prices == {100, 120}
Sizes == {None, Some(2)}

\* the direction of the position a signal opens
PositionDirection(s) == IF s.direction = "buy" THEN "long" ELSE "short"

\* a Position of the human book, with the fields the human operations assign
HumanPosition(ticker, direction, size, entry_price, status, signal_id) ==
    Position(ticker, direction, entry_price, status, "human", signal_id)
        @@ [size |-> size, confirmed_at |-> now]

\* mutant: the file is named after the signal when there is one
PositionFileBySignal(p) == IF IsSome(p.signal_id) THEN Get(p.signal_id) ELSE p.ticker

\* f"{ticker}.json": the file a position is written to
PositionFile(p) == p.ticker

\* ai_close_position, human_close_position: what is written back
ClosedPosition(p) == [p EXCEPT !.status = "closed"]

\* PortfolioTracker.ai_open_position
AiOpen(s) ==
    /\ aiBook' = ApplyWrites(aiBook, <<WritePosition(AiOpenPosition(s))>>)
    /\ UNCHANGED <<busVars, humanBook, chatVars, schedVars>>

\* PortfolioTracker.ai_close_position: nothing without a position file
AiClose(ticker) ==
    /\ aiBook' = IF IsSome(aiBook[ticker])
                 THEN ApplyWrites(aiBook, <<WritePosition(ClosedPosition(Get(aiBook[ticker])))>>)
                 ELSE aiBook
    /\ UNCHANGED <<busVars, humanBook, chatVars, schedVars>>

\* mutant: a second confirmation of a signal adds its size to the position
ConfirmedPositionAdding(s, entry_price, size) ==
    LET f == s.ticker
        again == f \in DOMAIN humanBook /\ humanBook[f].signal_id = Some(s.id)
                 /\ IsSome(humanBook[f].size) /\ IsSome(size)
    IN HumanPosition(s.ticker, PositionDirection(s),
                     IF again THEN Some(Get(humanBook[f].size) + Get(size)) ELSE size,
                     entry_price, "confirmed", Some(s.id))

\* the Position human_confirm_position builds
ConfirmedPosition(s, entry_price, size) ==
    HumanPosition(s.ticker, PositionDirection(s), size, entry_price, "confirmed", Some(s.id))

\* PortfolioTracker.human_confirm_position
HumanConfirm(s, entry_price, size) ==
    /\ humanBook' = WriteFile(humanBook, PositionFile(ConfirmedPosition(s, entry_price, size)),
                              ConfirmedPosition(s, entry_price, size))
    /\ UNCHANGED <<busVars, aiBook, chatVars, schedVars>>

\* the Position human_skip_position builds
SkippedPosition(s) ==
    HumanPosition(s.ticker, PositionDirection(s), None,
                  IF IsSome(s.entry_target) /\ Get(s.entry_target) /= 0
                      THEN Get(s.entry_target) ELSE 0,
                  "skipped", Some(s.id))

\* PortfolioTracker.human_skip_position
HumanSkip(s) ==
    /\ humanBook' = WriteFile(humanBook, PositionFile(SkippedPosition(s)), SkippedPosition(s))
    /\ UNCHANGED <<busVars, aiBook, chatVars, schedVars>>

\* PortfolioTracker.human_close_position: nothing without a position file
HumanClose(ticker) ==
    /\ humanBook' = IF ticker \in DOMAIN humanBook
                    THEN WriteFile(humanBook, ticker, ClosedPosition(humanBook[ticker]))
                    ELSE humanBook
    /\ UNCHANGED <<busVars, aiBook, chatVars, schedVars>>

\* the Position human_initiated_trade builds
InitiatedPosition(ticker, direction, entry_price, size) ==
    HumanPosition(ticker, direction, size, entry_price, "confirmed", None)

\* PortfolioTracker.human_initiated_trade
HumanInitiated(ticker, direction, entry_price, size) ==
    /\ humanBook' = WriteFile(humanBook,
                              PositionFile(InitiatedPosition(ticker, direction, entry_price, size)),
                              InitiatedPosition(ticker, direction, entry_price, size))
    /\ UNCHANGED <<busVars, aiBook, chatVars, schedVars>>

\* --------------------------------------------------------- signal delivery
\* mutant: the successes joined as collected, neither sorted nor deduplicated
DeliveredViaUnsorted(successes) == successes

\* ", ".join(sorted(set(successes))): the distinct names in sort order.
DeliveredVia(successes) ==
    SelectSeq(AdapterOrder, LAMBDA n : \E i \in DOMAIN successes : successes[i] = n)

DeliveredSignal(s, successes, errors, at) ==
    [s EXCEPT !.status = "delivered",
              !.delivered_at = Some(at),
              !.delivered_via = Some(DeliveredVia(successes)),
              !.confirmation_status = "pending",
              !.confirmation_due_at = Some(at + ConfirmationTimeout),
              !.confirmation_reminder_sent_at = None,
              !.delivery_errors = IF errors = <<>> THEN None ELSE Some(errors)]

\* mutant: `errors or None`, as in the success branch
UndeliveredSignalNoErrors(s, errors) ==
    [s EXCEPT !.status = "approved",
              !.delivery_errors = IF errors = <<>> THEN None ELSE Some(errors)]

UndeliveredSignal(s, errors) ==
    [s EXCEPT !.status = "approved",
              !.delivery_errors =
                  IF errors = <<>>
                  THEN Some(<<[adapter |-> "", message |-> "No output adapters configured"]>>)
                  ELSE Some(errors)]

DeliveryEffects(s, successes, errors, at) ==
    IF successes /= <<>>
    THEN << WriteSignal(DeliveredSignal(s, successes, errors, at)),
            Publish("signal.delivered", s.id,
                    Some(DeliveredSignal(s, successes, errors, at)), "") >>
    ELSE << WriteSignal(UndeliveredSignal(s, errors)),
            Publish("alert.triggered", s.id, None, "error") >>

\* The result of one adapter.send, folded into the handler's two lists.
AfterSend(t, outcome) ==
    [t EXCEPT
       !.outcomes = Append(@, outcome),
       !.successes = IF outcome = "success"
                     THEN Append(@, outputAdapters[t.idx]) ELSE @,
       !.errors = IF outcome = "success" THEN @
                  ELSE Append(@, [adapter |-> outputAdapters[t.idx],
                                  message |-> IF outcome = "raise"
                                              THEN "exception" ELSE "delivery failed"])]

SendCall(t, i) == [adapter |-> outputAdapters[i], sig |-> t.event.sig, tid |-> t.tid]

DeliveryFinish(t, u) ==
    LET effs == DeliveryEffects(Get(t.event.payload), u.successes, u.errors, now)
    IN /\ Commit(effs)
       /\ tasks' = (tasks \ {t}) \cup Dispatch(NewEvents(effs))
       /\ handled' = handled \cup {Done(t, u.outcomes, effs)}

\* SignalDeliveryService._handle_signal_approved up to its first await:
\* the first adapter.send is called, or with no adapter the handler runs through.
DeliveryStart(t) ==
    /\ t \in tasks /\ t.handler = "signal_delivery" /\ t.pc = "start"
    /\ IF ~IsSome(t.event.payload)
       THEN /\ tasks' = tasks \ {t}
            /\ handled' = handled \cup {Done(t, <<>>, <<>>)}
            /\ UNCHANGED <<signals, aiBook, taskFiles, audit, nextId, sent>>
       ELSE IF outputAdapters = <<>>
       THEN /\ DeliveryFinish(t, t)
            /\ UNCHANGED sent
       ELSE /\ tasks' = (tasks \ {t}) \cup {[t EXCEPT !.pc = "sending", !.idx = 1]}
            /\ sent' = sent \cup {SendCall(t, 1)}
            /\ UNCHANGED <<signals, aiBook, taskFiles, audit, nextId, handled>>
    /\ UNCHANGED <<now, bus, replays, outputAdapters, ifaceVars, riskRules, watcher,
                   sched, loops, invocations>>

\* adapter.send returns (or raises); the loop calls the next adapter, or the
\* handler runs to its end.
DeliveryResume(t, outcome) ==
    /\ t \in tasks /\ t.handler = "signal_delivery" /\ t.pc = "sending"
    /\ IF t.idx < Len(outputAdapters)
       THEN /\ tasks' = (tasks \ {t}) \cup {[AfterSend(t, outcome) EXCEPT !.idx = t.idx + 1]}
            /\ sent' = sent \cup {SendCall(t, t.idx + 1)}
            /\ UNCHANGED <<signals, aiBook, taskFiles, audit, nextId, handled>>
       ELSE /\ DeliveryFinish(t, AfterSend(t, outcome))
            /\ UNCHANGED sent
    /\ UNCHANGED <<now, bus, replays, outputAdapters, ifaceVars, riskRules, watcher,
                   sched, loops, invocations>>

\* ------------------------------------------------------- output dispatcher
\* what payload.get("adapter") can be: absent, empty, a registered name or not
TextTargets == {None, Some(""), Some("discord"), Some("telegram"), Some("slack")}
TextOutcomes == {"success", "raise"}

\* payload of an integration.output event
TextPayload(text, adapter) == [text |-> text, adapter |-> adapter]

\* `if adapter_name and ...`: None and "" are false
Truthy(o) == IsSome(o) /\ Get(o) /= ""

\* mutant: the name filter falls back to every adapter when no adapter has the name
TextRecipientsOrAll(adapters, adapter_name) ==
    IF Truthy(adapter_name) /\ (\E i \in DOMAIN adapters : adapters[i] = Get(adapter_name))
    THEN SelectSeq(adapters, LAMBDA a : a = Get(adapter_name))
    ELSE adapters

\* the outputs the for loop does not `continue` past, in registry order
TextRecipients(adapters, adapter_name) ==
    SelectSeq(adapters, LAMBDA a : ~(Truthy(adapter_name) /\ a /= Get(adapter_name)))

\* one call of send_text
TextCall(t, adapter, outcome) ==
    [ tid |-> t.tid, target |-> t.event.payload[1].adapter, adapter |-> adapter,
      outcome |-> outcome ]

\* some component publishes an integration.output event
PublishOutput(text, adapter) ==
    /\ nextId <= MaxOutputs
    /\ LET effs == << Publish("integration.output", "", Some(TextPayload(text, adapter)), "") >>
       IN /\ Commit(effs)
          /\ tasks' = tasks \cup Dispatch(NewEvents(effs))
    /\ UNCHANGED <<now, bus, replays, outputAdapters, ifaceVars, riskRules, handled, sent,
                   watcher, sched, loops, invocations>>

\* OutputDispatcher.handle_integration_output with its send_text calls: one
\* call per recipient, whatever the calls before it did; outs[i] is what the
\* i-th registered adapter's send_text does.  Nothing is written or published.
HandleIntegrationOutput(t, outs) ==
    /\ t \in tasks /\ t.handler = "output_dispatcher"
    /\ tasks' = tasks \ {t}
    /\ handled' = handled \cup {Done(t, outs, <<>>)}
    /\ texts' = IF IsSome(t.event.payload) /\ t.event.payload[1].text /= ""
                THEN texts \cup
                     { TextCall(t, outputAdapters[i], outs[i]) :
                         i \in { j \in DOMAIN outputAdapters :
                                   \E k \in DOMAIN TextRecipients(outputAdapters,
                                                                  t.event.payload[1].adapter) :
                                     TextRecipients(outputAdapters,
                                                    t.event.payload[1].adapter)[k]
                                       = outputAdapters[j] } }
                ELSE texts
    /\ UNCHANGED <<now, bus, replays, outputAdapters, humanBook, history, turns, returned,
                   memories, market, persisted, riskRules, signals, aiBook, audit, nextId,
                   sent, watcher, schedVars>>

\* The same handler seen from the store and the bus alone, where it changes
\* nothing: OutputDispatcher.handle_integration_output runs to its end.
DispatchOutput(t) ==
    /\ t \in tasks /\ t.handler = "output_dispatcher"
    /\ tasks' = tasks \ {t}
    /\ handled' = handled \cup {Done(t, <<>>, <<>>)}
    /\ UNCHANGED <<now, bus, replays, outputAdapters, ifaceVars, riskRules, signals, aiBook, audit,
                   nextId, sent, watcher, schedVars>>

\* ------------------------------------------- pending-confirmation watcher
\* Store.list_json("signals", Signal): the parsed files, sorted by file name.
ListSignals ==
    LET present == SelectSeq(SignalOrder, LAMBDA id : IsSome(signals[id]))
    IN [i \in DOMAIN present |-> Get(signals[present[i]])]

\* The four `continue` tests of _scan_once.
ReminderDue(s, at) ==
    /\ s.status = "delivered"
    /\ s.confirmation_status = "pending"
    /\ s.confirmation_reminder_sent_at = None
    /\ IsSome(s.confirmation_due_at)
    /\ ~(Get(s.confirmation_due_at) > at)

RECURSIVE SkipToDue(_, _)
SkipToDue(list, at) ==
    IF list = <<>> THEN <<>>
    ELSE IF ReminderDue(list[1], at) THEN list
    ELSE SkipToDue(Tail(list), at)

WatcherIdle ==
    [running |-> FALSE, pc |-> "none", at |-> None, rest |-> <<>>, evt |-> 0, starts |-> 0]

ReminderEffects(s) == << Publish("integration.output", s.id, None, "") >>

\* The for loop of _scan_once from `list` on, up to the await of the next
\* reminder publish, or to the end of the scan and into asyncio.sleep.
ScanFrom(list, at, effs) ==
    LET due == SkipToDue(list, at)
    IN IF due = <<>>
       THEN /\ Commit(effs)
            /\ tasks' = tasks
            /\ watcher' = [watcher EXCEPT !.pc = "sleeping", !.at = Some(at),
                                          !.rest = <<>>, !.evt = 0]
       ELSE /\ Commit(effs \o ReminderEffects(due[1]))
            /\ tasks' = tasks \cup Dispatch(NewEvents(effs \o ReminderEffects(due[1])))
            /\ watcher' = [watcher EXCEPT !.pc = "publishing", !.at = Some(at),
                                          !.rest = due, !.evt = nextId]

\* PendingConfirmationWatcher.start
WatcherStart ==
    /\ ~watcher.running
    /\ watcher.starts < MaxWatcherStarts
    /\ watcher' = [WatcherIdle EXCEPT !.running = TRUE, !.pc = "sleeping",
                                      !.starts = watcher.starts + 1]
    /\ UNCHANGED <<now, bus, replays, outputAdapters, ifaceVars, riskRules, signals, aiBook, audit,
                   tasks, nextId, handled, sent, schedVars>>

\* _loop: the sleep ends (or the task runs for the first time), _scan_once starts.
WatcherScan ==
    /\ watcher.pc = "sleeping"
    /\ ScanFrom(ListSignals, now, <<>>)
    /\ UNCHANGED <<now, bus, replays, outputAdapters, ifaceVars, riskRules, handled, sent,
                   sched, loops, invocations>>

\* bus.publish returned: record the reminder on the signal read at scan time,
\* write it, go on with the rest of the list.
ReminderSent(s, at) == [s EXCEPT !.confirmation_reminder_sent_at = Some(at)]

WatcherResume ==
    /\ watcher.pc = "publishing"
    /\ \A t \in tasks : t.tid /= watcher.evt
    /\ ScanFrom(Tail(watcher.rest), Get(watcher.at),
                << WriteSignal(ReminderSent(watcher.rest[1], Get(watcher.at))) >>)
    /\ UNCHANGED <<now, bus, replays, outputAdapters, ifaceVars, riskRules, handled, sent,
                   sched, loops, invocations>>

\* PendingConfirmationWatcher.stop: the loop task is cancelled where it waits;
\* cancelling the gather of a publish cancels the callbacks it is waiting for.
WatcherStop ==
    /\ watcher.running
    /\ watcher' = [WatcherIdle EXCEPT !.starts = watcher.starts]
    /\ tasks' = IF watcher.pc = "publishing"
                THEN {t \in tasks : t.tid /= watcher.evt} ELSE tasks
    /\ UNCHANGED <<now, bus, replays, outputAdapters, ifaceVars, riskRules, signals, aiBook, audit,
                   nextId, handled, sent, schedVars>>

\* ------------------------------------------------------------------- clock
Tick ==
    /\ now < MaxTime
    /\ now' = now + 1
    /\ UNCHANGED <<bus, replays, outputAdapters, ifaceVars, riskRules, signals, aiBook, audit, tasks,
                   nextId, handled, sent, watcher, schedVars>>

\* the clock moves on to the next UTC midnight
NextDay ==
    /\ UtcDate(now) < MaxDays
    /\ now' = UtcDate(now) * TicksPerMinute * 1440
    /\ UNCHANGED <<bus, replays, outputAdapters, ifaceVars, riskRules, signals, aiBook, audit, tasks,
                   nextId, handled, sent, watcher, schedVars>>

\* --------------------------------------------------------------- scheduler
TaskOrder == <<"task_a", "task_b">>
TaskIds == {TaskOrder[i] : i \in DOMAIN TaskOrder}
\* registry.has("task_handler", name)
TaskHandlers == {"ai.run_prompt"}
HandlerOutcomes == {"success", "no_action", "error", "raise"}

\* a cron field: "*", "*/a", "a-b" or "a"
Star == [kind |-> "*", a |-> 0, b |-> 0]
Step(n) == [kind |-> "*/", a |-> n, b |-> 0]
Range(lo, hi) == [kind |-> "-", a |-> lo, b |-> hi]
Exact(n) == [kind |-> "n", a |-> n, b |-> 0]

FieldMatches(field, value) ==
    CASE field.kind = "*" -> TRUE
      [] field.kind = "*/" -> value % field.a = 0
      [] field.kind = "-" -> field.a <= value /\ value <= field.b
      [] OTHER -> value = field.a

CronMatches(expression, dt) ==
    /\ FieldMatches(expression.minute, dt.minute)
    /\ FieldMatches(expression.hour, dt.hour)
    /\ FieldMatches(expression.dom, dt.day)
    /\ FieldMatches(expression.month, dt.month)
    /\ FieldMatches(expression.dow, dt.dow)

EveryMinute == [minute |-> Star, hour |-> Star, dom |-> Star, month |-> Star, dow |-> Star]

Task(id, type, cron_expression, run_at, handler) ==
    [ id |-> id, type |-> type, cron_expression |-> cron_expression,
      run_at |-> run_at, handler |-> handler, enabled |-> TRUE,
      last_run_at |-> None, last_result |-> None, run_count |-> 0 ]

WriteTask(t) == [op |-> "write", dir |-> "tasks", key |-> t.id, val |-> t]

SameMinute(last, at) ==
    /\ DateTime(last).year = DateTime(at).year
    /\ DateTime(last).month = DateTime(at).month
    /\ DateTime(last).day = DateTime(at).day
    /\ DateTime(last).hour = DateTime(at).hour
    /\ DateTime(last).minute = DateTime(at).minute

\* Scheduler._is_due
IsDue(task, at) ==
    IF IsSome(task.run_at)
    THEN IF IsSome(task.last_run_at) THEN FALSE ELSE at >= Get(task.run_at)
    ELSE IF IsSome(task.cron_expression)
    THEN IF IsSome(task.last_run_at) /\ SameMinute(Get(task.last_run_at), at)
         THEN FALSE
         ELSE CronMatches(Get(task.cron_expression), DateTime(at))
    ELSE IF task.type = "research" THEN task.last_run_at = None
    ELSE FALSE

\* cron elements that cannot be evaluated: "x" (int() raises ValueError),
\* "*/2,1" (a step first in a list, ValueError) and "*/0" (ZeroDivisionError)
NonNumeric == [kind |-> "x", a |-> 0, b |-> 0]
StepList == [kind |-> "*/,", a |-> 2, b |-> 1]
FieldRaises(field) == field.kind \in {"x", "*/,"} \/ (field.kind = "*/" /\ field.a = 0)

\* "* * * *": an expression of four fields
FourFields == [minute |-> Star, hour |-> Star, dom |-> Star, month |-> Star]

\* cron_matches raises: not five fields, or a field that raises is reached
\* (`and` stops at the first field that does not match)
CronRaises(expression, dt) ==
    IF DOMAIN expression /= {"minute", "hour", "dom", "month", "dow"} THEN TRUE
    ELSE LET fs == << expression.minute, expression.hour, expression.dom,
                      expression.month, expression.dow >>
             vs == << dt.minute, dt.hour, dt.day, dt.month, dt.dow >>
         IN \E i \in 1..5 :
               /\ FieldRaises(fs[i])
               /\ \A j \in 1..(i - 1) : ~FieldRaises(fs[j]) /\ FieldMatches(fs[j], vs[j])

\* Scheduler._is_due raises: cron_matches is reached and raises
IsDueRaises(task, at) ==
    /\ ~IsSome(task.run_at)
    /\ IsSome(task.cron_expression)
    /\ ~(IsSome(task.last_run_at) /\ SameMinute(Get(task.last_run_at), at))
    /\ CronRaises(Get(task.cron_expression), DateTime(at))

\* _fire_task, "Update task file": the record read at tick time, updated.
Fired(task, at, status) ==
    [task EXCEPT !.last_run_at = Some(at),
                 !.last_result = Some(status),
                 !.run_count = task.run_count + 1,
                 !.enabled = IF task.type \in {"one_off", "research"}
                             THEN FALSE ELSE task.enabled]

FiredEvent(task) == Publish("schedule.fired", task.id, None, "")

\* Store.list_json("tasks", Task): the parsed files, sorted by file name.
ListTasks ==
    LET present == SelectSeq(TaskOrder, LAMBDA id : IsSome(taskFiles[id]))
    IN [i \in DOMAIN present |-> Get(taskFiles[present[i]])]

\* The for loop of _check_tasks from `list` on, with the tick's `at`: tasks
\* that are disabled or not due are skipped, a due task without a registered
\* handler is fired and written at once, and the loop runs up to the first
\* await of a handler's run (rest starts with that task) or to its end.  An
\* exception of _is_due leaves the for loop and is caught in _loop.
RECURSIVE CheckFrom(_, _, _)
CheckFrom(list, at, effs) ==
    IF list = <<>> THEN [effs |-> effs, rest |-> <<>>]
    ELSE IF ~list[1].enabled THEN CheckFrom(Tail(list), at, effs)
    ELSE IF IsDueRaises(list[1], at) THEN [effs |-> effs, rest |-> <<>>]
    ELSE IF ~IsDue(list[1], at) THEN CheckFrom(Tail(list), at, effs)
    ELSE IF list[1].handler \in TaskHandlers
    THEN [effs |-> effs \o <<FiredEvent(list[1])>>, rest |-> list]
    ELSE CheckFrom(Tail(list), at,
                   effs \o << FiredEvent(list[1]),
                              WriteTask(Fired(list[1], at, "no_action")) >>)

Invocation(task, lid, at) ==
    [ task |-> task.id, lid |-> lid, at |-> at, start |-> now,
      state |-> "running", wrote |-> None ]

\* One segment of a loop task l, from `list` on: commit what it did, then
\* either wait for handler.run or go to asyncio.sleep.
RunLoop(l, list, at, effs, invs) ==
    LET r == CheckFrom(list, at, effs)
    IN /\ Commit(r.effs)
       /\ tasks' = tasks \cup Dispatch(NewEvents(r.effs))
       /\ IF r.rest = <<>>
          THEN /\ loops' = (loops \ {l}) \cup
                     {[l EXCEPT !.pc = "sleeping", !.at = None, !.rest = <<>>, !.inv = 0]}
               /\ invocations' = invs
          ELSE /\ loops' = (loops \ {l}) \cup
                     {[l EXCEPT !.pc = "running", !.at = Some(at), !.rest = r.rest,
                                !.inv = Len(invs) + 1]}
               /\ invocations' = Append(invs, Invocation(r.rest[1], l.lid, at))

SchedIdle == [running |-> FALSE, task |-> None, starts |-> 0]
NewLoop(lid) == [lid |-> lid, pc |-> "sleeping", at |-> None, rest |-> <<>>, inv |-> 0]

\* Scheduler.start: no test of _running; every call creates a loop task.
SchedStart ==
    /\ sched.starts < MaxSchedulerStarts
    /\ sched' = [running |-> TRUE, task |-> Some(sched.starts + 1),
                 starts |-> sched.starts + 1]
    /\ loops' = loops \cup {NewLoop(sched.starts + 1)}
    /\ UNCHANGED <<sigVars, taskFiles, invocations>>

\* Scheduler.start called on a scheduler that is not running
SchedStartStopped ==
    /\ ~sched.running
    /\ SchedStart

\* Scheduler.stop: _running cleared, the task of the latest start cancelled
\* where it waits; cancelling it inside handler.run skips the task-file update.
SchedStop ==
    /\ sched.running
    /\ sched' = [sched EXCEPT !.running = FALSE]
    /\ loops' = {l \in loops : Some(l.lid) /= sched.task}
    /\ invocations' =
         [ i \in DOMAIN invocations |->
             IF \E l \in loops : Some(l.lid) = sched.task /\ l.pc = "running" /\ l.inv = i
             THEN [invocations[i] EXCEPT !.state = "cancelled"]
             ELSE invocations[i] ]
    /\ UNCHANGED <<sigVars, taskFiles>>

\* _loop: the sleep ends (or the task runs for the first time) and the while
\* test finds _running cleared.
LoopExit(l) ==
    /\ l.pc = "sleeping"
    /\ ~sched.running
    /\ loops' = loops \ {l}
    /\ UNCHANGED <<sigVars, taskFiles, sched, invocations>>

\* _loop: the sleep ends (or the task runs for the first time), _check_tasks starts.
LoopCheck(l) ==
    /\ l.pc = "sleeping"
    /\ sched.running
    /\ RunLoop(l, ListTasks, now, <<>>, invocations)
    /\ UNCHANGED <<now, bus, replays, outputAdapters, ifaceVars, riskRules, handled, sent,
                   watcher, sched>>

ResultStatus(outcome) == IF outcome = "raise" THEN "error" ELSE outcome

\* handler.run returned or raised: update the task file, go on with the list.
HandlerReturn(l, outcome) ==
    /\ l.pc = "running"
    /\ RunLoop(l, Tail(l.rest), Get(l.at),
               << WriteTask(Fired(l.rest[1], Get(l.at), ResultStatus(outcome))) >>,
               [invocations EXCEPT ![l.inv].state = "returned",
                                   ![l.inv].wrote = Some(now)])
    /\ UNCHANGED <<now, bus, replays, outputAdapters, ifaceVars, riskRules, handled, sent,
                   watcher, sched>>

\* ---------------------------------------------------------- specification
RuleConfigs == { SubSeq(RuleNames, 1, k) : k \in 0..Len(RuleNames) }
AdapterConfigs ==
    { <<>>, <<"discord">>, <<"telegram">>,
      <<"discord", "telegram">>, <<"telegram", "discord">> }

InitSignals ==
    /\ now = 0
    /\ outputAdapters \in AdapterConfigs
    /\ riskRules \in RuleConfigs
    /\ signals = [id \in SignalIds |-> None]
    /\ aiBook = [k \in Tickers |-> None]
    /\ audit = <<>>
    /\ tasks = {}
    /\ nextId = 1
    /\ replays = 0
    /\ bus = BusIdle
    /\ humanBook = NoFiles
    /\ texts = {}
    /\ history = [c \in Channels |-> <<>>]
    /\ turns = <<>>
    /\ returned = <<>>
    /\ memories = <<>>
    /\ market = {}
    /\ persisted = <<>>
    /\ handled = {}
    /\ sent = {}
    /\ watcher = WatcherIdle
    /\ taskFiles = [id \in TaskIds |-> None]
    /\ sched = SchedIdle
    /\ loops = {}
    /\ invocations = <<>>

NextSignals ==
    \/ \E p \in Proposals : Propose(SignalOrder[1], p)
    \/ \E t \in tasks, outs \in [DOMAIN riskRules -> RuleOutcomes] : HandleSignal(t, outs)
    \/ \E t \in tasks : DeliveryStart(t)
    \/ \E t \in tasks, o \in SendOutcomes : DeliveryResume(t, o)
    \/ \E t \in tasks : DispatchOutput(t)
    \/ WatcherStart
    \/ WatcherScan
    \/ WatcherResume
    \/ WatcherStop
    \/ Tick

SpecSignals == InitSignals /\ [][NextSignals]_vars

NextReplay == NextSignals \/ \E i \in DOMAIN audit : Redeliver(i)

\* one rule and one adapter registered: enough for a second handling to differ
InitReplay ==
    /\ InitSignals
    /\ outputAdapters = <<"discord">>
    /\ riskRules = <<"confidence">>

SpecReplay == InitReplay /\ [][NextReplay]_vars

\* -- the risk engine with both rules registered, over two UTC days
\* the frequency rule reads nothing of the signal: proposals of one ticker do
OneTickerProposals == {p \in Proposals : p.ticker = "AAPL"}

InitFrequency ==
    /\ InitSignals
    /\ outputAdapters = <<>>
    /\ riskRules = RuleNames

NextFrequency ==
    \/ \E id \in SignalIds, p \in OneTickerProposals : Propose(id, p)
    \/ \E t \in tasks, outs \in [DOMAIN riskRules -> RuleOutcomes],
          readable \in BOOLEAN, ok \in BOOLEAN : HandleSignalCounting(t, outs, readable, ok)
    \/ NextDay

SpecFrequency == InitFrequency /\ [][NextFrequency]_vars

\* -- the same while the events directory can be read and written
NextFrequencySound ==
    \/ \E id \in SignalIds, p \in OneTickerProposals : Propose(id, p)
    \/ \E t \in tasks, outs \in [DOMAIN riskRules -> RuleOutcomes] :
          HandleSignalCounting(t, outs, TRUE, TRUE)
    \/ NextDay

SpecFrequencySound == InitFrequency /\ [][NextFrequencySound]_vars

\* -- the tool loop alone: the messages of one input adapter
NextToolLoop ==
    \/ \E channel \in Channels : HandleMessage("telegram", channel)
    \/ \E t \in DOMAIN turns, result \in LlmResults : ToolCallReturns(t, result)
    \/ \E t \in DOMAIN turns, outcome \in {"ok", "error", "unknown"} : ToolReturns(t, outcome)
    \/ \E t \in DOMAIN turns, out \in CompleteResults : CompleteReturns(t, out)

InitInterface ==
    /\ InitSignals
    /\ outputAdapters = <<>>
    /\ riskRules = <<>>

SpecToolLoop == InitInterface /\ [][NextToolLoop]_vars

\* -- the AI interface under messages from two input adapters, with an LLM
\* that asks for one tool call at a time
NextInterface ==
    \/ \E source \in Sources, channel \in Channels : HandleMessage(source, channel)
    \/ \E t \in DOMAIN turns, result \in OneCallResults : ToolCallReturns(t, result)
    \/ \E t \in DOMAIN turns, outcome \in {"ok", "error", "unknown"} : ToolReturns(t, outcome)
    \/ \E t \in DOMAIN turns, out \in CompleteResults : CompleteReturns(t, out)

SpecInterface == InitInterface /\ [][NextInterface]_vars

\* -- scheduled ai.run_prompt runs, the chat turns of one input adapter, and
\* the delivery of what the runs publish
AiRunnerPublish(t) ==
    /\ turns[t].pc = "publish"
    /\ turns' = [turns EXCEPT ![t].pc = "done"]
    /\ LET effs == << Publish("integration.output", "",
                              Some(TextPayload(Get(turns[t].reply), turns[t].adapter)), "") >>
       IN /\ Commit(effs)
          /\ tasks' = tasks \cup Dispatch(NewEvents(effs))
    /\ UNCHANGED <<now, bus, replays, outputAdapters, humanBook, texts, history, returned,
                   memories, market, persisted, riskRules, handled, sent, watcher, sched,
                   loops, invocations>>

NextScheduled ==
    \/ \E channel \in Channels : HandleMessage("telegram", channel)
    \/ \E channel \in Channels : RunPrompt(channel, Some("telegram"))
    \/ \E t \in DOMAIN turns, result \in ScheduledResults : ToolCallReturns(t, result)
    \/ \E t \in DOMAIN turns, outcome \in {"ok", "error", "unknown"} : ToolReturns(t, outcome)
    \/ \E t \in DOMAIN turns, out \in CompleteResults : CompleteReturns(t, out)
    \/ \E t \in DOMAIN turns : AiRunnerPublish(t)
    \/ \E t \in tasks, outs \in [DOMAIN outputAdapters -> {"success"}] :
         HandleIntegrationOutput(t, outs)

InitScheduled ==
    /\ InitSignals
    /\ outputAdapters = <<"telegram">>
    /\ riskRules = <<>>

SpecScheduled == InitScheduled /\ [][NextScheduled]_vars

\* -- the same turns and runs over a store whose inserts can fail
NextPersistence ==
    \/ \E channel \in Channels, ok \in BOOLEAN : HandleMessagePersisting("telegram", channel, ok)
    \/ \E channel \in Channels : RunPrompt(channel, Some("telegram"))
    \/ \E t \in DOMAIN turns, result \in ScheduledResults, ok \in BOOLEAN :
         ToolCallReturnsPersisting(t, result, ok)
    \/ \E t \in DOMAIN turns, outcome \in {"ok", "error", "unknown"}, ok \in BOOLEAN :
         ToolReturnsPersisting(t, outcome, ok)
    \/ \E t \in DOMAIN turns, out \in CompleteResults, ok \in BOOLEAN :
         CompleteReturnsPersisting(t, out, ok)
    \/ \E t \in DOMAIN turns : AiRunnerPublish(t)

SpecPersistence == InitScheduled /\ [][NextPersistence]_vars

\* -- the text pipeline alone: integration.output events and their dispatcher
NextOutput ==
    \/ \E text \in {"", "hello"}, adapter \in TextTargets : PublishOutput(text, adapter)
    \/ \E t \in tasks, outs \in [DOMAIN outputAdapters -> TextOutcomes] :
         HandleIntegrationOutput(t, outs)

InitOutput ==
    /\ InitSignals
    /\ riskRules = <<>>

SpecOutput == InitOutput /\ [][NextOutput]_vars

\* -- the portfolio tracker alone, called with any signal, in any order
PortfolioSignals ==
    {Signal(id, p) : id \in {SignalOrder[1], SignalOrder[2]}, p \in Proposals}

NextPortfolio ==
    \/ \E s \in PortfolioSignals : AiOpen(s)
    \/ \E ticker \in Tickers : AiClose(ticker)
    \/ \E s \in PortfolioSignals, price \in Prices, size \in Sizes : HumanConfirm(s, price, size)
    \/ \E s \in PortfolioSignals : HumanSkip(s)
    \/ \E ticker \in Tickers : HumanClose(ticker)
    \/ \E ticker \in Tickers, direction \in {"long", "short"}, price \in Prices, size \in Sizes :
         HumanInitiated(ticker, direction, price, size)

InitPortfolio ==
    /\ InitSignals
    /\ outputAdapters = <<>>
    /\ riskRules = <<>>

SpecPortfolio == InitPortfolio /\ [][NextPortfolio]_vars

\* -- the bus alone: its subscriber lists under subscribe and unsubscribe
InitBus ==
    /\ InitSignals
    /\ outputAdapters = <<>>
    /\ riskRules = <<>>

NextBusLists ==
    \/ \E type \in BusTypes \cup {"*"}, cb \in Callbacks : BusSubscribe(type, cb)
    \/ \E type \in BusTypes \cup {"*"}, cb \in Callbacks : BusUnsubscribe(type, cb)

SpecBusLists == InitBus /\ [][NextBusLists]_vars

\* -- the bus alone: publish calls while callbacks are being subscribed
NextBus ==
    \/ \E type \in BusTypes \cup {"*"}, cb \in Callbacks : BusSubscribe(type, cb)
    \/ \E type \in BusTypes, ok \in BOOLEAN : BusPublish(type, ok)
    \/ \E c \in DOMAIN bus.calls, o \in {"return", "raise"} :
         \E k \in DOMAIN bus.calls[c].tasks : BusHandlerEnd(c, k, o)
    \/ \E c \in DOMAIN bus.calls : BusPublishReturn(c)
    \/ NextDay

SpecBus == InitBus /\ [][NextBus]_vars

\* -- the scheduler alone, over a tasks directory of one or two files
TaskMenu(id) ==
    { Task(id, "one_off", None, Some(1), h) : h \in {"ai.run_prompt", "missing"} }
    \cup { Task(id, "recurring", Some(EveryMinute), None, h) : h \in {"ai.run_prompt", "missing"} }
    \cup { Task(id, "research", None, None, h) : h \in {"ai.run_prompt", "missing"} }

InitScheduler ==
    /\ now = 0
    /\ outputAdapters = <<>>
    /\ riskRules = <<>>
    /\ signals = [id \in SignalIds |-> None]
    /\ aiBook = [k \in Tickers |-> None]
    /\ audit = <<>>
    /\ tasks = {}
    /\ nextId = 1
    /\ replays = 0
    /\ bus = BusIdle
    /\ humanBook = NoFiles
    /\ texts = {}
    /\ history = [c \in Channels |-> <<>>]
    /\ turns = <<>>
    /\ returned = <<>>
    /\ memories = <<>>
    /\ market = {}
    /\ persisted = <<>>
    /\ handled = {}
    /\ sent = {}
    /\ watcher = WatcherIdle
    /\ \E a \in TaskMenu("task_a"), b \in {None} \cup {Some(t) : t \in TaskMenu("task_b")} :
         taskFiles = [id \in TaskIds |-> IF id = "task_a" THEN Some(a) ELSE b]
    /\ sched = SchedIdle
    /\ loops = {}
    /\ invocations = <<>>

\* any sequence of start and stop calls
NextScheduler ==
    \/ SchedStart
    \/ SchedStop
    \/ \E l \in loops : LoopExit(l)
    \/ \E l \in loops : LoopCheck(l)
    \/ \E l \in loops, o \in HandlerOutcomes : HandlerReturn(l, o)
    \/ Tick

\* one task file with a schedule: enough for two loops to meet on the same task
InitSchedulerOneTask ==
    /\ InitScheduler
    /\ taskFiles["task_b"] = None
    /\ Get(taskFiles["task_a"]).type /= "research"

SpecScheduler == InitSchedulerOneTask /\ [][NextScheduler]_vars

\* start only when stopped: stop/start cycles
NextSchedulerCycles ==
    \/ SchedStartStopped
    \/ SchedStop
    \/ \E l \in loops : LoopCheck(l)
    \/ \E l \in loops, o \in HandlerOutcomes : HandlerReturn(l, o)
    \/ Tick

SpecSchedulerCycles == InitScheduler /\ [][NextSchedulerCycles]_vars

\* started once and never stopped
NextSchedulerSingle ==
    \/ SchedStartStopped
    \/ \E l \in loops : LoopCheck(l)
    \/ \E l \in loops, o \in HandlerOutcomes : HandlerReturn(l, o)
    \/ Tick

SpecSchedulerSingle == InitScheduler /\ [][NextSchedulerSingle]_vars

\* ----------------------------------------------------------- task creation
MaxCalls == 2

\* params.prompt of a create_task call: no such key, null, or a string
NoPrompt == [kind |-> "absent", s |-> ""]
NullPrompt == [kind |-> "null", s |-> ""]
StrPrompt(s) == [kind |-> "str", s |-> s]
PromptValues == {NoPrompt, NullPrompt, StrPrompt(""), StrPrompt(" "), StrPrompt("watch")}

\* str(params.get("prompt", ""))
Str(v) == CASE v.kind = "absent" -> "" [] v.kind = "null" -> "None" [] OTHER -> v.s

\* mutant: the prompt taken as it is
StripNothing(s) == s

\* str.strip on the strings above
Strip(s) == IF s = " " THEN "" ELSE s

UnknownHandler == "Cannot create task. Unknown handler"
PromptRequired == "Cannot create task. Handler 'ai.run_prompt' requires params.prompt."
CreatedTask == "Created task"

\* the arguments of the create_task tool
CreateTaskArgs ==
    [ handler : {"ai.run_prompt", "missing"},
      prompt : PromptValues,
      type : {None, Some("one_off"), Some("research")},
      cron_expression : {None, Some(EveryMinute)},
      run_at : {None, Some(1)} ]

\* args.get("type", "recurring")
TypeOrDefault(type) == IF IsSome(type) THEN Get(type) ELSE "recurring"

\* f"task_{uuid4().hex[:12]}": an id no file has yet
UnusedTaskIds == SelectSeq(TaskOrder, LAMBDA id : taskFiles[id] = None)

\* Task(...) as _tool_create_task and handle_create_task build it
CreatedRecord(id, args, created_by) ==
    Task(id, TypeOrDefault(args.type), args.cron_expression, args.run_at, args.handler)
        @@ [created_by |-> created_by, prompt |-> args.prompt]

\* Scheduler.create_task: the file written, then task.created published
CreateTaskEffects(task) ==
    << WriteTask(task), Publish("task.created", task.id, None, "") >>

SchedulerCreateTask(task) ==
    /\ Commit(CreateTaskEffects(task))
    /\ tasks' = tasks \cup Dispatch(NewEvents(CreateTaskEffects(task)))

Returned(tool, args, result) == [tool |-> tool, args |-> args, result |-> result]

\* what _tool_create_task returns
CreateTaskResult(args) ==
    IF args.handler \notin TaskHandlers THEN UnknownHandler
    ELSE IF args.handler = "ai.run_prompt" /\ Strip(Str(args.prompt)) = "" THEN PromptRequired
    ELSE CreatedTask

\* AIInterface._tool_create_task
ToolCreateTask(args) ==
    /\ Len(returned) < MaxCalls
    /\ returned' = Append(returned, Returned("create_task", args, CreateTaskResult(args)))
    /\ IF CreateTaskResult(args) = CreatedTask
       THEN /\ UnusedTaskIds /= <<>>
            /\ SchedulerCreateTask(CreatedRecord(UnusedTaskIds[1], args, "ai"))
       ELSE UNCHANGED <<signals, aiBook, taskFiles, audit, nextId, tasks>>
    /\ UNCHANGED <<now, bus, replays, outputAdapters, riskRules, handled, sent, watcher,
                   humanBook, texts, history, turns, memories, market, persisted, sched, loops,
                   invocations>>

\* the body of POST /tasks: the handler it names, if any, and whether it has a name
CreateTaskBodies ==
    [ name : BOOLEAN,
      handler : {None, Some("ai.run_prompt"), Some("missing")},
      type : {None, Some("one_off"), Some("research")},
      cron_expression : {None, Some(EveryMinute)},
      run_at : {None, Some(1)} ]

\* Task(**body)
BodyArgs(body) ==
    [ handler |-> Get(body.handler), prompt |-> NoPrompt, type |-> body.type,
      cron_expression |-> body.cron_expression, run_at |-> body.run_at ]

\* server.handle_create_task
HandleCreateTask(body) ==
    /\ Len(returned) < MaxCalls
    /\ IF ~body.name \/ body.handler = None
       THEN /\ returned' = Append(returned, Returned("POST /tasks", body, "400"))
            /\ UNCHANGED <<signals, aiBook, taskFiles, audit, nextId, tasks>>
       ELSE /\ UnusedTaskIds /= <<>>
            /\ returned' = Append(returned, Returned("POST /tasks", body, "201"))
            /\ SchedulerCreateTask(CreatedRecord(UnusedTaskIds[1], BodyArgs(body), "human"))
    /\ UNCHANGED <<now, bus, replays, outputAdapters, riskRules, handled, sent, watcher,
                   humanBook, texts, history, turns, memories, market, persisted, sched, loops,
                   invocations>>

\* -- tasks created through the tool and through the HTTP API
NextTasks ==
    \/ \E args \in CreateTaskArgs : ToolCreateTask(args)
    \/ \E body \in CreateTaskBodies : HandleCreateTask(body)

InitTasks == InitPortfolio /\ taskFiles = [id \in TaskIds |-> None]

SpecTasks == InitTasks /\ [][NextTasks]_vars

\* AIInterface._tool_delete_task, Scheduler.delete_task: the task file is
\* removed when there is one; the entry of returned keeps the answer
DeleteTask(task_id) ==
    /\ Len(returned) < MaxCalls
    /\ taskFiles' = [taskFiles EXCEPT ![task_id] = None]
    /\ returned' = Append(returned, [ tool |-> "delete_task", args |-> [task_id |-> task_id],
                                      result |-> IsSome(taskFiles[task_id]) ])
    /\ UNCHANGED <<busVars, aiBook, humanBook, texts, history, turns, memories, market,
                   persisted, sched, loops, invocations>>

\* -- a running scheduler and the delete_task tool
NextDelete ==
    \/ SchedStartStopped
    \/ \E l \in loops : LoopCheck(l)
    \/ \E l \in loops, o \in {"success", "raise"} : HandlerReturn(l, o)
    \/ \E task_id \in TaskIds : DeleteTask(task_id)
    \/ Tick

SpecDelete == InitScheduler /\ [][NextDelete]_vars

\* ----------------------------------------------------------- learning task
\* min_outcome_days, in days of the model's clock
MinOutcomeDays == 1

\* a position file as the comparison reads it
Compared(p, close_price) == p @@ [close_price |-> close_price, opened_at |-> 0]

ComparedSignal(ticker) ==
    Signal(SignalOrder[1], [ticker |-> ticker, direction |-> "buy", entry_target |-> Some(100)])

\* what the two books can hold for one ticker after the tracker's operations
BookPairs(ticker) ==
    LET s == ComparedSignal(ticker)
        ai == Compared(AiOpenPosition(s), None)
        human(p) == Compared(p, None)
    IN { [ai |-> None, human |-> None],
         [ai |-> Some(ai), human |-> None],
         [ai |-> Some(ai), human |-> Some(human(SkippedPosition(s)))],
         [ai |-> Some(ai), human |-> Some(human(ConfirmedPosition(s, 100, None)))],
         [ai |-> Some(Compared(ClosedPosition(AiOpenPosition(s)), Some(120))),
          human |-> Some(human(SkippedPosition(s)))],
         [ai |-> Some(ai),
          human |-> Some(Compared(ClosedPosition(ConfirmedPosition(s, 100, None)), Some(120)))],
         [ai |-> None, human |-> Some(human(InitiatedPosition(ticker, "long", 100, None)))] }

\* ComparisonHandler._classify_divergence: the type, or None
ClassifyDivergence(ai_pos, human_pos) ==
    IF IsSome(ai_pos) /\ IsSome(human_pos) /\ Get(ai_pos).status = Get(human_pos).status
    THEN None
    ELSE IF /\ IsSome(ai_pos) /\ IsSome(human_pos)
            /\ Get(ai_pos).status \in {"monitoring", "closed"}
            /\ Get(human_pos).status \in {"monitoring", "closed"}
            /\ IsSome(Get(ai_pos).close_price) /\ IsSome(Get(human_pos).close_price)
            /\ Get(ai_pos).close_price /= Get(human_pos).close_price
    THEN Some("timing_divergence")
    ELSE IF IsSome(ai_pos) /\ IsSome(human_pos) /\ Get(human_pos).status = "skipped"
    THEN Some("human_skipped")
    ELSE IF IsSome(ai_pos) /\ ~IsSome(human_pos)
    THEN None
    ELSE IF IsSome(human_pos) /\ ~IsSome(ai_pos) /\ Get(human_pos).signal_id = None
    THEN Some("human_initiated")
    ELSE None

HumanFile(ticker) == IF ticker \in DOMAIN humanBook THEN Some(humanBook[ticker]) ELSE None

\* the divergence of a ticker, as run builds it
Divergence(ticker) ==
    [ ticker |-> ticker,
      type |-> ClassifyDivergence(aiBook[ticker], HumanFile(ticker)),
      ai_pos |-> IF ClassifyDivergence(aiBook[ticker], HumanFile(ticker)) = Some("human_initiated")
                 THEN None ELSE aiBook[ticker],
      opened_at |-> 0 ]

Divergent == {ticker \in Tickers : IsSome(Divergence(ticker).type)}

\* _has_enough_outcome_time: (now - opened_at).days >= min_outcome_days
HasEnoughOutcomeTime(div) ==
    (now - div.opened_at) \div (TicksPerMinute * 1440) >= MinOutcomeDays

\* tag.isupper() or tag.startswith("$"), on the tags of the model
LooksLikeTicker(tag) == tag \in Tickers \cup {"AI"}

\* Store.index_memory: the first tag that looks like a ticker, or ""; the
\* handler does not pass the divergence's ticker
IndexedTicker(tags, ticker) ==
    IF \E i \in DOMAIN tags : LooksLikeTicker(tags[i])
    THEN tags[CHOOSE i \in DOMAIN tags :
                 LooksLikeTicker(tags[i]) /\ \A j \in 1..(i - 1) : ~LooksLikeTicker(tags[j])]
    ELSE ""

\* what llm.complete gives for a divergence: nothing usable, JSON without
\* "tags", or JSON with a list of tags
Responses(ticker) ==
    { [kind |-> "fail", tags |-> <<>>],
      [kind |-> "json", tags |-> <<ticker>>],
      [kind |-> "json", tags |-> <<ticker, "earnings">>],
      [kind |-> "json", tags |-> <<"earnings", "macro">>],
      [kind |-> "json", tags |-> <<"AI", ticker>>] }

\* _parse_memory_response, with the row index_memory writes for it; covers is
\* the ticker of the divergence, which the record itself does not hold
MemoryOf(id, div, response) ==
    [ id |-> id,
      signal_id |-> IF IsSome(div.ai_pos) THEN Get(div.ai_pos).signal_id ELSE None,
      divergence_type |-> Get(div.type),
      tags |-> response.tags,
      ticker |-> IndexedTicker(response.tags, div.ticker),
      covers |-> div.ticker ]

\* Store.search_memories(ticker=...), then _is_same_divergence on each
AlreadyCovered(mems, div) ==
    \E i \in DOMAIN mems :
        /\ mems[i].ticker = div.ticker
        /\ IsSome(div.ai_pos)
        /\ mems[i].signal_id = Get(div.ai_pos).signal_id

\* the loop of run over the divergences, in the order the set gives them
RECURSIVE GenerateMemories(_, _, _)
GenerateMemories(mems, order, responses) ==
    IF order = <<>> THEN mems
    ELSE LET div == Divergence(order[1])
             skip == \/ AlreadyCovered(mems, div)
                     \/ ~HasEnoughOutcomeTime(div)
                     \/ responses[order[1]].kind = "fail"
         IN GenerateMemories(
                IF skip THEN mems
                ELSE Append(mems, MemoryOf(Len(mems) + 1, div, responses[order[1]])),
                Tail(order), responses)

MemoryEvents(old, new) ==
    [ i \in 1..(Len(new) - Len(old)) |->
        Publish("memory.created", "", None, "") ]

\* the orders in which a set of tickers can be iterated
Orders(S) == {o \in UNION {[1..n -> S] : n \in 0..Cardinality(S)} :
                 Len(o) = Cardinality(S) /\ \A i, j \in DOMAIN o : i /= j => o[i] /= o[j]}

\* ComparisonHandler.run; nothing else writes memories or their index, so the
\* run is taken as one step
ComparisonRun(order, responses) ==
    /\ Len(returned) < MaxCalls
    /\ order \in Orders(Divergent)
    /\ memories' = GenerateMemories(memories, order, responses)
    /\ Commit(MemoryEvents(memories, memories'))
    /\ returned' = Append(returned,
           Returned("comparison.weekly", responses,
                    [ status |-> IF Divergent = {} THEN "no_action" ELSE "success",
                      created |-> Len(memories') - Len(memories) ]))
    /\ UNCHANGED <<now, bus, replays, outputAdapters, riskRules, handled, sent, watcher, tasks,
                   humanBook, texts, history, turns, market, persisted, sched, loops,
                   invocations>>

\* -- the learning task over two books that do not change
NextComparison ==
    \/ \E order \in Orders(Tickers) \cup Orders({"NVDA"}) \cup Orders({"AAPL"}) \cup Orders({}),
          responses \in [Tickers -> UNION {Responses(t) : t \in Tickers}] :
          /\ \A t \in Tickers : responses[t] \in Responses(t)
          /\ ComparisonRun(order, responses)
    \/ NextDay

InitComparison ==
    /\ now = 0
    /\ outputAdapters = <<>>
    /\ riskRules = <<>>
    /\ signals = [id \in SignalIds |-> None]
    /\ audit = <<>>
    /\ tasks = {}
    /\ nextId = 1
    /\ replays = 0
    /\ bus = BusIdle
    /\ texts = {}
    /\ history = [c \in Channels |-> <<>>]
    /\ turns = <<>>
    /\ returned = <<>>
    /\ memories = <<>>
    /\ market = {}
    /\ persisted = <<>>
    /\ handled = {}
    /\ sent = {}
    /\ watcher = WatcherIdle
    /\ taskFiles = [id \in TaskIds |-> None]
    /\ sched = SchedIdle
    /\ loops = {}
    /\ invocations = <<>>
    /\ \E nvda \in BookPairs("NVDA"), aapl \in BookPairs("AAPL") :
         /\ aiBook = [k \in Tickers |-> IF k = "NVDA" THEN nvda.ai ELSE aapl.ai]
         /\ humanBook = [k \in {t \in Tickers :
                                  IsSome(IF t = "NVDA" THEN nvda.human ELSE aapl.human)}
                           |-> Get(IF k = "NVDA" THEN nvda.human ELSE aapl.human)]

SpecComparison == InitComparison /\ [][NextComparison]_vars

\* --------------------------------------------------- portfolio tools
\* str.upper on the tickers a tool call names
Upper(ticker) ==
    CASE ticker = "nvda" -> "NVDA" [] ticker = "aapl" -> "AAPL" [] OTHER -> ticker

\* the arguments of the confirm_trade tool
ConfirmTradeArgs == [ticker : {"nvda", "NVDA", "AAPL"}, entry_price : Prices, size : Sizes]

\* the signals a confirmation or a skip can be about
Matching(ticker) ==
    SelectSeq(ListSignals, LAMBDA s : s.ticker = ticker /\ s.status \in {"approved", "delivered"})

PositionConfirmed == << Publish("position.confirmed", "", None, "") >>

\* AIInterface._tool_confirm_trade, and _tool_user_initiated when no signal
\* matches; the entry of returned keeps the signal and the book it left
ToolConfirmTrade(args) ==
    /\ Len(returned) < MaxCalls
    /\ LET ticker == Upper(args.ticker)
           matching == Matching(ticker)
           pos == IF matching /= <<>>
                  THEN ConfirmedPosition(matching[Len(matching)], args.entry_price, args.size)
                  ELSE InitiatedPosition(ticker, "long", args.entry_price, args.size)
       IN /\ humanBook' = WriteFile(humanBook, PositionFile(pos), pos)
          /\ returned' = Append(returned,
                 Returned("confirm_trade", args,
                          [ signal_id |-> pos.signal_id, book |-> humanBook' ]))
    /\ Commit(PositionConfirmed)
    /\ UNCHANGED <<now, bus, replays, outputAdapters, riskRules, handled, sent, watcher, tasks,
                   texts, history, turns, memories, market, persisted, sched, loops, invocations>>

PositionSkipped == << Publish("position.skipped", "", None, "") >>

\* the arguments of the skip_trade tool
SkipTradeArgs == [ticker : {"nvda", "AAPL"}]

\* AIInterface._tool_skip_trade: nothing is written without a matching signal
ToolSkipTrade(args) ==
    /\ Len(returned) < MaxCalls
    /\ LET matching == Matching(Upper(args.ticker))
           pos == SkippedPosition(matching[Len(matching)])
       IN IF matching /= <<>>
          THEN /\ humanBook' = WriteFile(humanBook, PositionFile(pos), pos)
               /\ returned' = Append(returned,
                      Returned("skip_trade", args,
                               [ signal_id |-> pos.signal_id, book |-> humanBook' ]))
               /\ Commit(PositionSkipped)
          ELSE /\ returned' = Append(returned,
                      Returned("skip_trade", args, [ signal_id |-> None, book |-> humanBook ]))
               /\ Commit(<<>>)
               /\ UNCHANGED humanBook
    /\ UNCHANGED <<now, bus, replays, outputAdapters, riskRules, handled, sent, watcher, tasks,
                   texts, history, turns, memories, market, persisted, sched, loops, invocations>>

\* signals as the pipeline leaves them in the store
StoredSignal(id, p, status) == [Signal(id, p) EXCEPT !.status = status]

\* -- the confirm_trade tool over a store of signals that does not change
NextConfirm ==
    \/ \E args \in ConfirmTradeArgs : ToolConfirmTrade(args)
    \/ Tick

InitConfirm ==
    /\ now = 0
    /\ outputAdapters = <<>>
    /\ riskRules = <<>>
    /\ \E a \in {None} \cup {Some(StoredSignal(SignalOrder[1],
                                  [ticker |-> "NVDA", direction |-> "buy",
                                   entry_target |-> Some(900)], st)) :
                               st \in {"proposed", "approved", "delivered"}},
          b \in {None} \cup {Some(StoredSignal(SignalOrder[2], p, "delivered")) : p \in Proposals} :
          signals = [id \in SignalIds |-> IF id = SignalOrder[1] THEN a
                                          ELSE IF id = SignalOrder[2] THEN b ELSE None]
    /\ aiBook = [k \in Tickers |-> None]
    /\ audit = <<>>
    /\ tasks = {}
    /\ nextId = 1
    /\ replays = 0
    /\ bus = BusIdle
    /\ humanBook = NoFiles
    /\ texts = {}
    /\ history = [c \in Channels |-> <<>>]
    /\ turns = <<>>
    /\ returned = <<>>
    /\ memories = <<>>
    /\ market = {}
    /\ persisted = <<>>
    /\ handled = {}
    /\ sent = {}
    /\ watcher = WatcherIdle
    /\ taskFiles = [id \in TaskIds |-> None]
    /\ sched = SchedIdle
    /\ loops = {}
    /\ invocations = <<>>

SpecConfirm == InitConfirm /\ [][NextConfirm]_vars

\* -- confirm_trade and skip_trade over signals with any ids and creation
\* times: the id is random (uuid4), so its order says nothing about the time
CreatedAt(s, t) == s @@ [created_at |-> t]

SelectableSignals(id) ==
    { CreatedAt(StoredSignal(id, p, st), t) :
        p \in {q \in Proposals : q.direction = "buy"}, st \in {"approved", "delivered"},
        t \in 0..1 }

NextSelect ==
    \/ \E args \in ConfirmTradeArgs : ToolConfirmTrade(args)
    \/ \E args \in SkipTradeArgs : ToolSkipTrade(args)

InitSelect ==
    /\ now = 1
    /\ outputAdapters = <<>>
    /\ riskRules = <<>>
    /\ \E a \in SelectableSignals(SignalOrder[1]), b \in SelectableSignals(SignalOrder[2]) :
          signals = [id \in SignalIds |-> IF id = SignalOrder[1] THEN Some(a)
                                          ELSE IF id = SignalOrder[2] THEN Some(b) ELSE None]
    /\ aiBook = [k \in Tickers |-> None]
    /\ audit = <<>>
    /\ tasks = {}
    /\ nextId = 1
    /\ replays = 0
    /\ bus = BusIdle
    /\ humanBook = NoFiles
    /\ texts = {}
    /\ history = [c \in Channels |-> <<>>]
    /\ turns = <<>>
    /\ returned = <<>>
    /\ memories = <<>>
    /\ market = {}
    /\ persisted = <<>>
    /\ handled = {}
    /\ sent = {}
    /\ watcher = WatcherIdle
    /\ taskFiles = [id \in TaskIds |-> None]
    /\ sched = SchedIdle
    /\ loops = {}
    /\ invocations = <<>>

SpecSelect == InitSelect /\ [][NextSelect]_vars

\* ------------------------------------------------------- cron expressions
MaxChecks == 1

\* the elements a field is written with, and the fields: the text of a field
\* is its elements joined by ","
CronElements == {Star, Step(2), Range(1, 2), Exact(1)}
CronFields == {<<e>> : e \in CronElements} \cup {<<e, f>> : e, f \in CronElements}
CronValues == 0..3

\* _field_matches on a list: any(...) over the parts, each a single element
AnyPartMatches(field, value) ==
    IF \E i \in DOMAIN field : FieldMatches(field[i], value) THEN "true" ELSE "false"

\* _field_matches(field, value): the tests in the order of the code. A text
\* of several elements that starts with "*/" is taken for a step, and
\* int() of the rest ("2,1") raises ValueError.
FieldTextMatches(field, value) ==
    IF field = <<Star>> THEN "true"
    ELSE IF field[1].kind = "*/"
    THEN IF Len(field) = 1
         THEN (IF FieldMatches(field[1], value) THEN "true" ELSE "false")
         ELSE "raise"
    ELSE IF Len(field) > 1 THEN AnyPartMatches(field, value)
    ELSE IF FieldMatches(field[1], value) THEN "true" ELSE "false"

\* `a and b` on results: b is evaluated only when a is true
AndThen(a, b) == IF a = "true" THEN b ELSE a

\* cron_matches on an expression of five fields
CronTextMatches(expression, dt) ==
    AndThen(FieldTextMatches(expression.minute, dt.minute),
    AndThen(FieldTextMatches(expression.hour, dt.hour),
    AndThen(FieldTextMatches(expression.dom, dt.day),
    AndThen(FieldTextMatches(expression.month, dt.month),
            FieldTextMatches(expression.dow, dt.dow)))))

CronExpressions ==
    [ minute : CronFields,
      hour : {<<Star>>, <<Exact(0)>>},
      dom : {<<Star>>},
      month : {<<Star>>, <<Exact(2)>>},
      dow : {<<Star>>, <<Exact(0)>>, <<Range(4, 5)>>} ]

\* a Thursday at 00:00 and 00:01, and the Sunday after it
CronTimes == {0, TicksPerMinute, 3 * 1440 * TicksPerMinute}

FieldCheck(field, value) ==
    /\ Len(returned) < MaxChecks
    /\ returned' = Append(returned,
           Returned("_field_matches", [field |-> field, value |-> value],
                    FieldTextMatches(field, value)))
    /\ UNCHANGED <<busVars, aiBook, humanBook, texts, history, turns, memories, market,
                   persisted, schedVars>>

CronCheck(expression, t) ==
    /\ Len(returned) < MaxChecks
    /\ returned' = Append(returned,
           Returned("cron_matches", [expression |-> expression, dt |-> DateTime(t)],
                    CronTextMatches(expression, DateTime(t))))
    /\ UNCHANGED <<busVars, aiBook, humanBook, texts, history, turns, memories, market,
                   persisted, schedVars>>

\* -- cron_matches and _field_matches on their own
NextCron ==
    \/ \E field \in CronFields, value \in CronValues : FieldCheck(field, value)
    \/ \E expression \in CronExpressions, t \in CronTimes : CronCheck(expression, t)

SpecCron == InitPortfolio /\ [][NextCron]_vars

\* -- the scheduler over task files whose cron expression may not evaluate
BrokenCrons ==
    { FourFields, [EveryMinute EXCEPT !.minute = NonNumeric],
      [EveryMinute EXCEPT !.minute = Step(0)], [EveryMinute EXCEPT !.minute = StepList] }

BrokenTasks(id) == { Task(id, "recurring", Some(c), None, "ai.run_prompt") : c \in BrokenCrons }

\* LoopCheck with a record of the tick: its time and the list it read
CheckTasks(l) ==
    /\ l.pc = "sleeping"
    /\ sched.running
    /\ Len(returned) < MaxChecks
    /\ RunLoop(l, ListTasks, now, <<>>, invocations)
    /\ returned' = Append(returned, Returned("_check_tasks", [at |-> now], ListTasks))
    /\ UNCHANGED <<now, bus, replays, outputAdapters, humanBook, texts, history, turns,
                   memories, market, persisted, riskRules, handled, sent, watcher, sched>>

NextBroken ==
    \/ SchedStartStopped
    \/ \E l \in loops : CheckTasks(l)
    \/ \E l \in loops, o \in {"success", "raise"} : HandlerReturn(l, o)
    \/ Tick

InitBroken ==
    /\ now = 0
    /\ outputAdapters = <<>>
    /\ riskRules = <<>>
    /\ signals = [id \in SignalIds |-> None]
    /\ aiBook = [k \in Tickers |-> None]
    /\ audit = <<>>
    /\ tasks = {}
    /\ nextId = 1
    /\ replays = 0
    /\ bus = BusIdle
    /\ humanBook = NoFiles
    /\ texts = {}
    /\ history = [c \in Channels |-> <<>>]
    /\ turns = <<>>
    /\ returned = <<>>
    /\ memories = <<>>
    /\ market = {}
    /\ persisted = <<>>
    /\ handled = {}
    /\ sent = {}
    /\ watcher = WatcherIdle
    /\ \E a \in TaskMenu("task_a") \cup BrokenTasks("task_a"),
          b \in TaskMenu("task_b") \cup BrokenTasks("task_b") :
         taskFiles = [id \in TaskIds |-> IF id = "task_a" THEN Some(a) ELSE Some(b)]
    /\ sched = SchedIdle
    /\ loops = {}
    /\ invocations = <<>>

SpecBroken == InitBroken /\ [][NextBroken]_vars

\* ------------------------------------------------------------ market data
MaxRows == 2

\* UTC datetimes within one minute: whole seconds and tenths of a second
\* (datetime.now(timezone.utc) has a fraction, datetime.fromtimestamp(ts,
\* tz=timezone.utc) of a whole ts has none)
DbTimes == [sec : 0..2, frac : {0, 5}]

\* the order of time
Before(a, b) == a.sec * 10 + a.frac <= b.sec * 10 + b.frac

\* datetime.isoformat(), as character codes, from the last digit of the
\* seconds to the sign of the offset: "1+" or "1.5+"; what is in front of it
\* and behind it is the same text for every time of DbTimes
IsoFormat(t) ==
    <<48 + t.sec>> \o (IF t.frac = 0 THEN <<>> ELSE <<46, 48 + t.frac>>) \o <<43>>

\* datetime.fromisoformat on such a text
FromIsoFormat(text) ==
    [ sec |-> text[1] - 48, frac |-> IF text[2] = 46 THEN text[3] - 48 ELSE 0 ]

\* mutant: the shorter text first
TextLeqByLength(a, b) == Len(a) <= Len(b)

\* a <= b on TEXT columns: byte by byte, a prefix before what it is a prefix of
RECURSIVE TextLeq(_, _)
TextLeq(a, b) ==
    IF a = <<>> THEN TRUE
    ELSE IF b = <<>> THEN FALSE
    ELSE IF a[1] /= b[1] THEN a[1] < b[1]
    ELSE TextLeq(Tail(a), Tail(b))

\* the MarketData a provider hands to save_market_data
MarketRows ==
    [ ticker : Tickers,
      timestamp : {t \in DbTimes : t.sec < 2 /\ (t.sec > 0 \/ t.frac = 0)},
      available_at : {t \in DbTimes : (t.sec > 0 \/ t.frac = 5) /\ (t.sec < 2 \/ t.frac = 0)},
      close : {100} ]

\* the row INSERT OR REPLACE writes: the times as text
StoredRow(d) ==
    [ ticker |-> d.ticker, timestamp |-> IsoFormat(d.timestamp),
      available_at |-> IsoFormat(d.available_at), close |-> d.close ]

\* PRIMARY KEY (ticker, timestamp, source), with one source
SameKey(r, q) == r.ticker = q.ticker /\ r.timestamp = q.timestamp

\* Store.save_market_data on a list of one row
SaveMarketData(d) ==
    /\ Cardinality({r \in market : ~SameKey(r, StoredRow(d))}) < MaxRows
    /\ market' = {r \in market : ~SameKey(r, StoredRow(d))} \cup {StoredRow(d)}
    /\ UNCHANGED <<busVars, aiBook, humanBook, texts, history, turns, returned, memories,
                   persisted, schedVars>>

\* WHERE ticker = ? AND available_at <= ?, the second only `if as_of`
Selected(rows, ticker, as_of) ==
    {r \in rows : /\ r.ticker = ticker
                  /\ IsSome(as_of) => TextLeq(r.available_at, IsoFormat(Get(as_of)))}

\* ORDER BY timestamp DESC LIMIT ?: the orders the rows can come in
RECURSIVE NewestFirst(_, _)
NewestFirst(rows, limit) ==
    IF rows = {} \/ limit = 0 THEN {<<>>}
    ELSE UNION { { <<r>> \o rest : rest \in NewestFirst(rows \ {r}, limit - 1) } :
                 r \in {r \in rows : \A q \in rows : TextLeq(q.timestamp, r.timestamp)} }

\* _row_to_market_data
RowToMarketData(r) ==
    [ ticker |-> r.ticker, timestamp |-> FromIsoFormat(r.timestamp),
      available_at |-> FromIsoFormat(r.available_at), close |-> r.close ]

\* Store.query_market_data
QueryMarketData(ticker, as_of, limit) ==
    /\ Len(returned) < MaxChecks
    /\ \E rows \in NewestFirst(Selected(market, ticker, as_of), limit) :
         returned' = Append(returned,
             Returned("query_market_data", [ticker |-> ticker, as_of |-> as_of],
                      [i \in DOMAIN rows |-> RowToMarketData(rows[i])]))
    /\ UNCHANGED <<busVars, aiBook, humanBook, texts, history, turns, memories, market,
                   persisted, schedVars>>

\* Store.get_latest_price: the close of the first row, or None
GetLatestPrice(ticker, as_of) ==
    /\ Len(returned) < MaxChecks
    /\ \E rows \in NewestFirst(Selected(market, ticker, as_of), 1) :
         returned' = Append(returned,
             Returned("get_latest_price", [ticker |-> ticker, as_of |-> as_of],
                      [i \in DOMAIN rows |-> RowToMarketData(rows[i])]))
    /\ UNCHANGED <<busVars, aiBook, humanBook, texts, history, turns, memories, market,
                   persisted, schedVars>>

\* -- the market_data table under saves and queries
NextMarket ==
    \/ \E d \in MarketRows : SaveMarketData(d)
    \/ \E ticker \in Tickers, as_of \in {None} \cup {Some(t) : t \in DbTimes}, limit \in 1..2 :
          QueryMarketData(ticker, as_of, limit)
    \/ \E ticker \in Tickers, as_of \in {None} \cup {Some(t) : t \in DbTimes} :
          GetLatestPrice(ticker, as_of)

SpecMarket == InitPortfolio /\ [][NextMarket]_vars

\* ------------------------------------------------------------ tool execution
\* the names of TOOLS, the list the LLM is given
Tools ==
    { "open_potential_position", "confirm_signal", "skip_signal", "close_position",
      "user_initiated_trade", "get_portfolio", "get_price", "list_tasks",
      "list_task_handlers", "create_task", "delete_task", "delete_task_by_name",
      "get_memories", "run_analysis", "get_signals" }

\* the names with a case in the match of _execute_tool
ExecutionBranches ==
    { "confirm_trade", "skip_trade", "close_position", "user_initiated_trade",
      "get_portfolio", "get_price", "list_tasks", "list_task_handlers", "create_task",
      "delete_task", "delete_task_by_name", "get_memories", "get_signals", "run_analysis" }

\* the names some plugin's call_tool answers
PluginTools == {"plugin_tool"}

\* _execute_tool: the case of the name, else the plugins, else "Unknown tool";
\* an exception of the tool becomes "Error executing"
ExecuteToolResult(name, raises) ==
    IF name \in ExecutionBranches \cup PluginTools
    THEN (IF raises THEN "error" ELSE "ok")
    ELSE "unknown"

ExecuteTool(name, raises) ==
    /\ Len(returned) < MaxCalls
    /\ returned' = Append(returned, Returned("_execute_tool", [name |-> name],
                                             ExecuteToolResult(name, raises)))
    /\ UNCHANGED <<busVars, aiBook, humanBook, texts, history, turns, memories, market,
                   persisted, schedVars>>

\* -- _execute_tool called with the names the LLM can give
NextTools ==
    \E name \in Tools \cup ExecutionBranches \cup PluginTools \cup {"no_such_tool"},
       raises \in BOOLEAN : ExecuteTool(name, raises)

SpecTools == InitPortfolio /\ [][NextTools]_vars

\* =================================================================== claims
RiskRuns == {h \in handled : h.handler = "risk_engine" /\ IsSome(h.event.payload)}
DeliveryRuns == {h \in handled : h.handler = "signal_delivery" /\ IsSome(h.event.payload)}
EveryRulePassed(h) == \A i \in DOMAIN h.outcomes : h.outcomes[i] = "pass"
OutcomeLines ==
    {i \in DOMAIN audit : audit[i].type \in {"signal.approved", "signal.rejected"}}

C2_RejectedHasNoEffect ==
    /\ \A c \in sent :
         \E i \in DOMAIN audit :
            audit[i].type = "signal.approved" /\ audit[i].id = c.tid /\ audit[i].sig = c.sig
    /\ \A h \in RiskRuns :
         ~EveryRulePassed(h) =>
            /\ Writes(h.effects, "positions/ai") = <<>>
            /\ \A c \in sent : c.sig /= h.event.sig
            /\ \A k \in Tickers :
                 IsSome(aiBook[k]) => Get(aiBook[k]).signal_id /= Some(h.event.sig)

C2_Witness ==
    /\ outputAdapters /= <<>>
    /\ tasks = {}
    /\ \E h \in RiskRuns : ~EveryRulePassed(h)

\* The AI-book write of a risk-engine run, found before its signal.approved
\* publish, for the signal's ticker, at `price`, monitoring, for this signal.
PositionBeforePublish(h, price) ==
    LET s == Get(h.event.payload)
    IN \E i, j \in DOMAIN h.effects :
         /\ i < j
         /\ h.effects[i].op = "write" /\ h.effects[i].dir = "positions/ai"
         /\ h.effects[i].key = s.ticker
         /\ h.effects[i].val.ticker = s.ticker
         /\ Some(h.effects[i].val.entry_price) = price
         /\ h.effects[i].val.status = "monitoring"
         /\ h.effects[i].val.signal_id = Some(s.id)
         /\ h.effects[j].op = "publish" /\ h.effects[j].dir = "signal.approved"

SucceededAdapters(h) ==
    {outputAdapters[i] : i \in {j \in DOMAIN h.outcomes : h.outcomes[j] = "success"}}
SortedNames(S) == SelectSeq(AdapterOrder, LAMBDA n : n \in S)

C6_WitnessAllFail ==
    \E h \in DeliveryRuns : h.outcomes = <<"failure", "raise">>

Reminders(id) ==
    {i \in DOMAIN audit : audit[i].type = "integration.output" /\ audit[i].sig = id}

\* a reminder is being published only by a scan taken at or after the due time
ReminderNotEarly ==
    watcher.pc = "publishing" =>
        Get(watcher.rest[1].confirmation_due_at) <= Get(watcher.at)

\* a finished scan taken at or after the due time has published the reminder
ReminderNotMissed ==
    \A id \in SignalIds :
        ( /\ watcher.pc = "sleeping" /\ IsSome(watcher.at)
          /\ IsSome(signals[id])
          /\ Get(signals[id]).status = "delivered"
          /\ Get(signals[id]).confirmation_status = "pending"
          /\ Get(Get(signals[id]).confirmation_due_at) <= Get(watcher.at) )
        => Reminders(id) /= {}

ReminderAtMostOnce == \A id \in SignalIds : Cardinality(Reminders(id)) <= 1

StatusMoves ==
    { <<"proposed", "approved">>, <<"proposed", "rejected">>,
      <<"approved", "delivered">> }

InvocationsOf(id) == {i \in DOMAIN invocations : invocations[i].task = id}

\* C8: over any ticks, handler outcomes and stop/start cycles of the scheduler,
\* the handler of a task with run_at set is invoked at most once.
C8_RunAtInvokedAtMostOnce ==
    \A id \in TaskIds :
        (IsSome(taskFiles[id]) /\ IsSome(Get(taskFiles[id]).run_at))
            => Cardinality(InvocationsOf(id)) <= 1

\* C9: a task with cron_expression never has its handler invoked twice within
\* the same calendar minute.
C9_CronOncePerMinute ==
    \A id \in TaskIds :
        (IsSome(taskFiles[id]) /\ IsSome(Get(taskFiles[id]).cron_expression))
            => \A i, j \in InvocationsOf(id) :
                 i /= j => ~SameMinute(invocations[i].start, invocations[j].start)

\* C10: a task id never has two handler runs in flight at the same time, and
\* its last_run_at is written only after that run has returned.
C10_OneRunInFlight ==
    /\ \A id \in TaskIds :
         Cardinality({i \in InvocationsOf(id) : invocations[i].state = "running"}) <= 1
    /\ \A i \in DOMAIN invocations :
         IsSome(invocations[i].wrote) => invocations[i].state = "returned"

\* the tasks a loop that waits for a handler has still to look at in this tick
Waiting(l) == {Tail(l.rest)[k] : k \in DOMAIN Tail(l.rest)}

\* C11: while one task's handler is still running, every other task that is due
\* is started all the same: no time passes with a handler in flight and another
\* due task of the same tick not yet started.
C11_LongHandlerDelaysNothing ==
    \A l \in loops :
        (l.pc = "running" /\ invocations[l.inv].start < now)
            => \A t \in Waiting(l) : ~(t.enabled /\ IsDue(t, Get(l.at)))

FiredLines(id) ==
    {i \in DOMAIN audit : audit[i].type = "schedule.fired" /\ audit[i].sig = id}

\* what a step that rewrites the record of task id must have written
RewrittenAsFired(id) ==
    LET old == Get(taskFiles[id])
        new == Get(taskFiles'[id])
        ret == {i \in InvocationsOf(id) :
                  invocations[i].state = "running" /\ invocations'[i].state = "returned"}
    IN /\ IsSome(taskFiles[id]) /\ IsSome(taskFiles'[id])
       /\ new.run_count = old.run_count + 1
       /\ new.enabled = IF old.type \in {"one_off", "research"} THEN FALSE ELSE old.enabled
       /\ new = [old EXCEPT !.run_count = new.run_count, !.enabled = new.enabled,
                            !.last_run_at = new.last_run_at,
                            !.last_result = new.last_result]
       /\ IF ret = {}
          THEN /\ old.handler \notin TaskHandlers
               /\ new.last_result = Some("no_action")
               /\ new.last_run_at \in {Some(now)} \cup {l.at : l \in loops}
          ELSE \E i \in ret :
                 /\ new.last_run_at = Some(invocations[i].at)
                 /\ new.last_result \in {Some("success"), Some("no_action"), Some("error")}

FiringRewritesRecord ==
    \A id \in TaskIds :
        /\ taskFiles'[id] /= taskFiles[id] => RewrittenAsFired(id)
        /\ Cardinality(FiredLines(id))' > Cardinality(FiredLines(id))
             => \/ taskFiles'[id] /= taskFiles[id]
                \/ \E i \in InvocationsOf(id)' : invocations'[i].state = "running"

EveryEndedFiringWrote ==
    \A i \in DOMAIN invocations :
        invocations[i].state /= "running" => IsSome(invocations[i].wrote)

SelfDisablingFiresOnce ==
    \A id \in TaskIds :
        (IsSome(taskFiles[id]) /\ Get(taskFiles[id]).type \in {"one_off", "research"})
            => Cardinality(FiredLines(id)) <= 1

\* C12: every firing (handler returned, raised, or not registered) ends with the
\* task record rewritten: last_run_at the tick time, last_result the status
\* (error when the handler raised), run_count one more, enabled false for
\* one_off and research; hence such a task fires at most once.
C12_FiringUpdatesRecord ==
    [][ /\ FiringRewritesRecord
        /\ EveryEndedFiringWrote'
        /\ SelfDisablingFiresOnce' ]_vars

\* the part of C12 about one firing, alone
C12_RecordOfOneFiring == [][FiringRewritesRecord]_vars

\* C13: a stop while a handler is in flight lets the handler run to completion
\* and its record update be written before stop is over: no handler is
\* abandoned mid-run, and a stopped scheduler has no firing in progress.
C13_StopAwaitsHandlers ==
    /\ \A i \in DOMAIN invocations : invocations[i].state /= "cancelled"
    /\ ~sched.running =>
         \A l \in loops : l.lid = Get(sched.task) => l.pc /= "running"

\* ------------------------------------------------------------ bus claims
Count(list, x) == Cardinality({i \in DOMAIN list : list[i] = x})

TaskCallbacks(call) == [k \in DOMAIN call.tasks |-> call.tasks[k].cb]

\* what a publish step of the given type has to start: for every callback as
\* many invocations as it has registrations under the type and under "*"
InvokesEachRegistration(type) ==
    LET call == bus'.calls[Len(bus'.calls)]
    IN /\ call.type = type
       /\ \A cb \in Callbacks :
            Count(TaskCallbacks(call), cb)
              = Count(bus.subscribers[type], cb) + Count(bus.wildcard_subscribers, cb)
       /\ \A k \in DOMAIN call.tasks : call.tasks[k].cb \in Callbacks

\* C14: publishing an event of type T starts exactly one invocation for each
\* registration under T and each registration under "*", and none for the
\* registrations under other types; a callback registered k times is invoked
\* k times.
C14_InvokesEachRegistrationOnce ==
    [][ \A type \in BusTypes, ok \in BOOLEAN :
          BusPublish(type, ok) => InvokesEachRegistration(type) ]_vars

C14_WitnessExactAndWildcard ==
    \E c \in DOMAIN bus.calls :
        /\ bus.calls[c].type = "signal.proposed"
        /\ TaskCallbacks(bus.calls[c]) = <<"cb_a", "cb_a">>
        /\ bus.subscribers["signal.proposed"] = <<"cb_a">>
        /\ bus.wildcard_subscribers = <<"cb_a">>
        /\ bus.subscribers["signal.approved"] = <<"cb_b">>

\* C15: publish returns only after every handler task is over; a handler that
\* raises ends its own task only: no other handler is cancelled, and publish
\* has no way out but its normal return.
C15_PublishAwaitsAllIsolated ==
    \A c \in DOMAIN bus.calls :
        /\ bus.calls[c].returned
             => \A k \in DOMAIN bus.calls[c].tasks :
                    bus.calls[c].tasks[k].state \in {"returned", "raised"}
        /\ \A k \in DOMAIN bus.calls[c].tasks :
               bus.calls[c].tasks[k].state \in {"pending", "returned", "raised"}

C15_WitnessOneRaised ==
    \E c \in DOMAIN bus.calls :
        /\ bus.calls[c].returned
        /\ \E j, k \in DOMAIN bus.calls[c].tasks :
             /\ j < k
             /\ bus.calls[c].tasks[j].state = "raised"
             /\ bus.calls[c].tasks[k].state = "returned"

AuditLinesOf(call) ==
    {i \in DOMAIN audit : audit[i].id = call.id /\ audit[i].file = UtcDate(call.at)}

\* C16 as stated: every published event has exactly one line with its id in
\* the audit log of the UTC date it was published on.
C16_ExactlyOneAuditLine ==
    \A c \in DOMAIN bus.calls : Cardinality(AuditLinesOf(bus.calls[c])) = 1

\* C16 amended: a published event has exactly one line with its id in the audit
\* log of the UTC date it was published on when the write succeeded and none
\* when it failed; never more than one, and no line in another day's file.
C16_OneAuditLineUnlessWriteFailed ==
    \A c \in DOMAIN bus.calls :
        /\ Cardinality(AuditLinesOf(bus.calls[c]))
             = IF bus.calls[c].persisted THEN 1 ELSE 0
        /\ \A i \in DOMAIN audit :
             audit[i].id = bus.calls[c].id => i \in AuditLinesOf(bus.calls[c])

C16_WitnessSecondDay ==
    \E c \in DOMAIN bus.calls :
        /\ bus.calls[c].persisted
        /\ UtcDate(bus.calls[c].at) = 2
        /\ AuditLinesOf(bus.calls[c]) /= {}

ListOf(b, type) == IF type = "*" THEN b.wildcard_subscribers ELSE b.subscribers[type]

\* C18: unsubscribe(T, cb) removes one registration of cb under T when there is
\* one and nothing otherwise; the other callbacks under T keep their places
\* and the lists of every other type are untouched.
C18_UnsubscribeRemovesOne ==
    bus.last.op = "unsubscribe" =>
        LET before == ListOf(bus.last, bus.last.type)
            after == ListOf(bus, bus.last.type)
        IN /\ \A t \in (BusTypes \cup {"*"}) \ {bus.last.type} :
                ListOf(bus, t) = ListOf(bus.last, t)
           /\ SelectSeq(after, LAMBDA c : c /= bus.last.cb)
                = SelectSeq(before, LAMBDA c : c /= bus.last.cb)
           /\ Count(after, bus.last.cb)
                = IF Count(before, bus.last.cb) > 0
                  THEN Count(before, bus.last.cb) - 1 ELSE 0
           /\ Count(before, bus.last.cb) = 0 => after = before

C18_WitnessDuplicateKept ==
    /\ bus.last.op = "unsubscribe"
    /\ bus.last.type = "signal.approved"
    /\ Count(ListOf(bus.last, "signal.approved"), bus.last.cb) = 2
    /\ Count(bus.subscribers["signal.approved"], bus.last.cb) = 1
    /\ Len(bus.subscribers["signal.approved"]) = 2

C18_WitnessAbsent ==
    /\ bus.last.op = "unsubscribe"
    /\ Count(ListOf(bus.last, bus.last.type), bus.last.cb) = 0
    /\ ListOf(bus.last, bus.last.type) /= <<>>

\* ids are given out in the order of the publish calls
InPublishOrder == \A i, j \in DOMAIN audit : i < j => audit[i].id < audit[j].id

Decisions == {"signal.approved", "signal.rejected"}
Outcomes == {"signal.delivered", "alert.triggered"}

LifecycleInOrder ==
    \A i, j \in DOMAIN audit :
        audit[i].sig = audit[j].sig =>
            /\ (audit[i].type = "signal.proposed" /\ audit[j].type \in Decisions) => i < j
            /\ (audit[i].type \in Decisions /\ audit[j].type \in Outcomes) => i < j
            /\ audit[j].type \in Decisions
                 => \E h \in 1..(j - 1) :
                        audit[h].sig = audit[j].sig /\ audit[h].type = "signal.proposed"
            /\ audit[j].type \in Outcomes
                 => \E h \in 1..(j - 1) :
                        audit[h].sig = audit[j].sig /\ audit[h].type = "signal.approved"

\* C17: the lines of the audit log are in the order of the publish calls, the
\* calls made by handlers of an earlier event included; so for every signal
\* the proposed line comes before its approved or rejected line, which comes
\* before its delivered or alert line.
C17_AuditInPublishOrder == InPublishOrder /\ LifecycleInOrder

C17_WitnessWholeLifecycle ==
    \E i, j, k \in DOMAIN audit :
        /\ i < j /\ j < k
        /\ audit[i].type = "signal.proposed"
        /\ audit[j].type = "signal.approved"
        /\ audit[k].type \in Outcomes
        /\ audit[i].sig = audit[k].sig /\ audit[j].sig = audit[k].sig

\* the status a decision event announces
Announced(type) == IF type = "signal.approved" THEN "approved" ELSE "rejected"

\* In a run of the risk engine, every decision publish comes after a write of
\* the signal's record that carries the announced status and the risk result
\* the event carries, with no later write of the record before the publish.
RecordSavedBeforePublish(h) ==
    \A j \in DOMAIN h.effects :
        (h.effects[j].op = "publish" /\ h.effects[j].dir \in Decisions) =>
            \E i \in 1..(j - 1) :
                /\ h.effects[i].op = "write" /\ h.effects[i].dir = "signals"
                /\ h.effects[i].key = h.effects[j].key
                /\ h.effects[i].val.status = Announced(h.effects[j].dir)
                /\ IsSome(h.effects[i].val.risk_result)
                /\ Get(h.effects[i].val.risk_result).approved
                     = (h.effects[j].dir = "signal.approved")
                /\ Some(h.effects[i].val) = h.effects[j].val
                /\ \A m \in (i + 1)..(j - 1) :
                     ~(h.effects[m].op = "write" /\ h.effects[m].dir = "signals"
                       /\ h.effects[m].key = h.effects[j].key)

\* A subscriber about to run on a decision event finds the record saved with
\* the announced status and the event's risk result.
SubscriberFindsRecord(t) ==
    (t.pc = "start" /\ t.event.type \in Decisions /\ IsSome(t.event.payload)) =>
        /\ IsSome(signals[t.event.sig])
        /\ Get(signals[t.event.sig]).status = Announced(t.event.type)
        /\ IsSome(Get(signals[t.event.sig]).risk_result)
        /\ Get(signals[t.event.sig]).risk_result = Get(t.event.payload).risk_result

\* C19: when a subscriber receives signal.approved or signal.rejected, the
\* persisted signal record already has that status and the risk result: the
\* risk engine saves the record before it publishes the event.
C19_RecordSavedBeforeDecisionEvent ==
    /\ \A h \in RiskRuns : Publishes(h.effects) /= <<>> /\ RecordSavedBeforePublish(h)
    /\ \A t \in tasks : SubscriberFindsRecord(t)

C19_WitnessApprovedReceived ==
    /\ \E h \in RiskRuns : EveryRulePassed(h) /\ Get(signals[h.event.sig]).status = "approved"
    /\ \E t \in tasks : t.pc = "start" /\ t.event.type = "signal.approved"

C19_WitnessRejected ==
    \E h \in RiskRuns :
        /\ ~EveryRulePassed(h)
        /\ Get(signals[h.event.sig]).status = "rejected"
        /\ \E i \in DOMAIN audit : audit[i].type = "signal.rejected" /\ audit[i].sig = h.event.sig

\* the approvals the risk engine published on UTC day d
ApprovalsOn(d) == {h \in RiskRuns : EveryRulePassed(h) /\ UtcDate(h.at) = d}

C20_WitnessLimitThenNextDay ==
    /\ Cardinality(ApprovalsOn(1)) = MaxSignalsPerDay
    /\ Cardinality(ApprovalsOn(2)) = 1
    /\ \A h \in RiskRuns : IsSome(signals[h.event.sig])

C20_WitnessRejectedAtLimit ==
    /\ Cardinality(ApprovalsOn(1)) = MaxSignalsPerDay
    /\ \E h \in RiskRuns : ~EveryRulePassed(h) /\ UtcDate(h.at) = 1

\* ------------------------------------------------------- portfolio claims
OpenStatus(p) == p.status \notin {"closed", "skipped"}

OpenHuman(ticker) ==
    {f \in DOMAIN humanBook : humanBook[f].ticker = ticker /\ OpenStatus(humanBook[f])}

OpenAi(ticker) ==
    {f \in DOMAIN aiBook :
        IsSome(aiBook[f]) /\ Get(aiBook[f]).ticker = ticker /\ OpenStatus(Get(aiBook[f]))}

\* C21: after any sequence of portfolio operations each book holds at most one
\* position per ticker whose status is neither closed nor skipped.
C21_OneOpenPositionPerTicker ==
    \A ticker \in Tickers :
        Cardinality(OpenHuman(ticker)) <= 1 /\ Cardinality(OpenAi(ticker)) <= 1

C21_WitnessSecondSignalSameTicker ==
    /\ OpenAi("NVDA") /= {}
    /\ \E f \in OpenHuman("NVDA") :
         humanBook[f].signal_id = Some(SignalOrder[2]) /\ humanBook[f].entry_price = 120
    /\ \E f \in DOMAIN humanBook : humanBook[f].ticker = "AAPL" /\ humanBook[f].status = "closed"

\* --------------------------------------------------- text pipeline claims
\* C22: when the payload of an integration.output event names an adapter,
\* send_text is called on the adapter registered under that name and on no
\* other (on none when no adapter has that name), whatever the other
\* adapters' send_text would do.
C22_OnlyTheNamedAdapter ==
    /\ \A c \in texts : Truthy(c.target) => c.adapter = Get(c.target)
    /\ \A h \in handled :
         (h.handler = "output_dispatcher" /\ IsSome(h.event.payload)
            /\ Truthy(h.event.payload[1].adapter) /\ h.event.payload[1].text /= "")
           => Cardinality({c \in texts : c.tid = h.tid})
                = Cardinality({i \in DOMAIN outputAdapters :
                                 outputAdapters[i] = Get(h.event.payload[1].adapter)})

C22_WitnessSecondAdapterNamed ==
    /\ outputAdapters = <<"discord", "telegram">>
    /\ \E c \in texts : c.target = Some("telegram") /\ c.adapter = "telegram"
    /\ \E h \in handled :
         /\ h.handler = "output_dispatcher"
         /\ h.event.payload[1].adapter = Some("slack") /\ h.event.payload[1].text /= ""
         /\ h.outcomes[1] = "raise"
         /\ \A c \in texts : c.tid /= h.tid

\* ------------------------------------------------------- interface claims
InFlight(t) == turns[t].pc /= "done"

\* the places of a turn's messages in its channel's history
PlacesOf(t) ==
    {i \in DOMAIN history[turns[t].channel] : history[turns[t].channel][i].turn = t}

\* C23: two handle_message calls for the same channel never overlap: the
\* later one appends nothing to the channel's history and sends no LLM
\* request before the earlier one has appended its final reply.
C23_OneTurnPerChannel ==
    \A t1, t2 \in DOMAIN turns :
        (t1 < t2 /\ turns[t1].channel = turns[t2].channel) =>
            /\ ~(InFlight(t1) /\ InFlight(t2))
            /\ \A i \in PlacesOf(t1), j \in PlacesOf(t2) : i < j

C23_WitnessOtherChannels ==
    \E t1, t2 \in DOMAIN turns :
        /\ turns[t1].channel /= turns[t2].channel
        /\ InFlight(t1) /\ InFlight(t2)

\* C24: one message costs at most max_rounds tool_call requests and ends with
\* a non-empty text: at the round limit the notice is appended and the reply
\* is the model's wrap-up or the fixed round-limit message.
C24_LoopEndsWithText ==
    \A t \in DOMAIN turns :
        /\ turns[t].requests <= MaxRounds
        /\ ~InFlight(t) =>
             /\ IsSome(turns[t].reply) /\ Get(turns[t].reply) /= ""
             /\ turns[t].notice => Get(turns[t].reply) \in {"text", RoundLimit}

\* the part of C24 that is about the number of requests and the notice
C24_AtMostMaxRounds ==
    \A t \in DOMAIN turns :
        /\ turns[t].requests <= MaxRounds
        /\ turns[t].notice <=>
             (turns[t].pc \in {"wrapup", "done"}
                /\ Len(turns[t].executed) > 0
                /\ turns[t].executed[Len(turns[t].executed)].request = MaxRounds)

C24_WitnessRoundLimit ==
    \E t \in DOMAIN turns : turns[t].notice /\ turns[t].reply = Some(RoundLimit)

\* the assistant messages of a tool loop that carry tool calls
Asking(msgs) == {i \in DOMAIN msgs : msgs[i].role = "assistant" /\ msgs[i].tool_calls /= <<>>}

\* the tool messages of a tool loop, as places in msgs
Answers(msgs) == {j \in DOMAIN msgs : msgs[j].role = "tool"}

\* the assistant message a tool message answers: the last one before it
AskedAt(msgs, j) == CHOOSE i \in Asking(msgs) : i < j /\ \A h \in Asking(msgs) : h < j => h <= i

\* Every round is the assistant message with its calls followed by one tool
\* message per call, in the order of the calls, each with its call's id.
RoundsInOrder(msgs) ==
    /\ \A j \in Answers(msgs) :
         /\ \E i \in Asking(msgs) : i < j
         /\ LET i == AskedAt(msgs, j)
            IN /\ j - i <= Len(msgs[i].tool_calls)
               /\ msgs[j].tool_call_id /= ""
               /\ msgs[i].tool_calls[j - i].id /= "" =>
                    msgs[j].tool_call_id = msgs[i].tool_calls[j - i].id
    /\ \A i \in Asking(msgs) :
         \A k \in 1..Len(msgs[i].tool_calls) :
             (i + k <= Len(msgs)) => msgs[i + k].role = "tool"

\* Each execution is the call its tool message answers, once and in order.
ExecutedInOrder(t) ==
    LET msgs == turns[t].messages
        places == SelectSeq([j \in DOMAIN msgs |-> j], LAMBDA j : msgs[j].role = "tool")
    IN /\ Len(turns[t].executed) = Len(places)
       /\ \A n \in DOMAIN places :
            LET i == AskedAt(msgs, places[n])
            IN /\ turns[t].executed[n].idx = places[n] - i
               /\ turns[t].executed[n].name = msgs[i].tool_calls[places[n] - i].name
               /\ turns[t].executed[n].request = Cardinality({h \in Asking(msgs) : h <= i})

\* Outside the execution of a round every call of every round is answered.
RoundsComplete(t) ==
    LET msgs == turns[t].messages
    IN \A i \in Asking(msgs) :
         IF turns[t].pc = "tool" /\ \A h \in Asking(msgs) : h <= i
         THEN Len(msgs) = i + turns[t].idx - 1
         ELSE i + Len(msgs[i].tool_calls) <= Len(msgs)

RejectedArgs(args) ==
    \/ args.handler \notin TaskHandlers
    \/ args.handler = "ai.run_prompt" /\ args.prompt \in {NoPrompt, StrPrompt(""), StrPrompt(" ")}

TaskCreatedEvents(log) == SelectSeq(log, LAMBDA e : e.type = "task.created")

C27_ExactlyOneSchedule ==
    \A id \in TaskIds :
        (IsSome(taskFiles[id]) /\ Get(taskFiles[id]).type \in {"recurring", "one_off"})
            => (IsSome(Get(taskFiles[id]).cron_expression)
                  /= IsSome(Get(taskFiles[id]).run_at))

\* ----------------------------------------------------- learning task claims
\* C28: no two persisted memories cover the same (ticker, signal_id)
\* divergence: a run that follows a run which created a memory for a
\* divergence creates no other one for it, whatever its type and whatever
\* tags the LLM gave.
C28_OneMemoryPerDivergence ==
    \A i, j \in DOMAIN memories :
        (i /= j /\ memories[i].covers = memories[j].covers)
            => memories[i].signal_id /= memories[j].signal_id

\* the divergences of C28 that the index does cover: a signal's divergence
\* whose memory is indexed under the divergence's ticker
C28_OnePerIndexedSignalDivergence ==
    \A i, j \in DOMAIN memories :
        (/\ i < j /\ memories[i].covers = memories[j].covers
         /\ memories[i].signal_id = memories[j].signal_id)
            => \/ memories[i].signal_id = None
               \/ memories[i].ticker /= memories[i].covers

C28_WitnessSecondRunSkips ==
    /\ Len(returned) = 2 /\ Len(memories) = 1
    /\ returned[1].result.created = 1 /\ returned[2].result.created = 0
    /\ memories[1].divergence_type = "human_skipped"
    /\ returned[2].args[memories[1].covers].kind = "json"

\* --------------------------------------------------- portfolio tool claims
\* the fields of a position that C29 names
Confirmed(p) ==
    [ ticker |-> p.ticker, direction |-> p.direction, entry_price |-> p.entry_price,
      size |-> p.size, signal_id |-> p.signal_id, status |-> p.status ]

ConfirmedFiles(book) == [f \in DOMAIN book |-> Confirmed(book[f])]

\* two calls in a row that confirm the same signal at the same price and size
SameConfirmation(i) ==
    /\ returned[i].tool = "confirm_trade" /\ returned[i + 1].tool = "confirm_trade"
    /\ IsSome(returned[i].result.signal_id)
    /\ returned[i].result.signal_id = returned[i + 1].result.signal_id
    /\ returned[i].args.entry_price = returned[i + 1].args.entry_price
    /\ returned[i].args.size = returned[i + 1].args.size

\* C29: confirming the same signal twice with the same entry price and size
\* leaves the human book as confirming it once does: one position for the
\* ticker, with the same direction, entry_price, size, signal_id and status
\* confirmed.
C29_ConfirmTwiceAsOnce ==
    \A i \in 1..(Len(returned) - 1) :
        SameConfirmation(i) =>
            /\ ConfirmedFiles(returned[i + 1].result.book) = ConfirmedFiles(returned[i].result.book)
            /\ \E f \in DOMAIN returned[i + 1].result.book :
                 /\ returned[i + 1].result.book[f].signal_id = returned[i].result.signal_id
                 /\ returned[i + 1].result.book[f].status = "confirmed"
                 /\ returned[i + 1].result.book[f].entry_price = returned[i].args.entry_price
                 /\ returned[i + 1].result.book[f].size = returned[i].args.size
                 /\ \A g \in DOMAIN returned[i + 1].result.book :
                      returned[i + 1].result.book[g].ticker = returned[i + 1].result.book[f].ticker
                          => g = f

\* the second confirmation came later and with the ticker spelled otherwise
C29_WitnessConfirmedTwice ==
    /\ Len(returned) = 2 /\ SameConfirmation(1)
    /\ returned[1].args.ticker /= returned[2].args.ticker
    /\ IsSome(returned[1].args.size)
    /\ returned[2].result.book /= returned[1].result.book
    /\ humanBook = returned[2].result.book

\* ------------------------------------------------------------- cron claims
FieldChecks == {i \in DOMAIN returned : returned[i].tool = "_field_matches"}
CronChecks == {i \in DOMAIN returned : returned[i].tool = "cron_matches"}

\* some element of the field matches the value
SomeElementMatches(field, value) ==
    \E i \in DOMAIN field :
        \/ field[i] = Star
        \/ field[i].kind = "*/" /\ value % field[i].a = 0
        \/ field[i].kind = "n" /\ value = field[i].a
        \/ field[i].kind = "-" /\ field[i].a <= value /\ value <= field[i].b

AsResult(b) == IF b THEN "true" ELSE "false"

\* C30: a field matches a value exactly when one of its comma-separated
\* elements does, for any mix and order of `*`, `*/N`, N and A-B in the list;
\* cron_matches is the conjunction over the five fields, with 0 for Sunday.
C30_FieldMatchesSomeElement ==
    /\ \A i \in FieldChecks :
         returned[i].result = AsResult(SomeElementMatches(returned[i].args.field,
                                                          returned[i].args.value))
    /\ \A i \in CronChecks :
         LET e == returned[i].args.expression
             dt == returned[i].args.dt
         IN returned[i].result =
              AsResult(/\ SomeElementMatches(e.minute, dt.minute)
                       /\ SomeElementMatches(e.hour, dt.hour)
                       /\ SomeElementMatches(e.dom, dt.day)
                       /\ SomeElementMatches(e.month, dt.month)
                       /\ SomeElementMatches(e.dow, dt.dow))

\* a list that starts with a step
StepFirst(field) == Len(field) > 1 /\ field[1].kind = "*/"

\* the same for the fields that do not start a list with `*/N`
C30_MatchesUnlessStepFirst ==
    /\ \A i \in FieldChecks :
         ~StepFirst(returned[i].args.field) =>
             returned[i].result = AsResult(SomeElementMatches(returned[i].args.field,
                                                              returned[i].args.value))
    /\ \A i \in CronChecks :
         LET e == returned[i].args.expression
             dt == returned[i].args.dt
         IN ~StepFirst(e.minute) =>
              returned[i].result =
                  AsResult(/\ SomeElementMatches(e.minute, dt.minute)
                           /\ SomeElementMatches(e.hour, dt.hour)
                           /\ SomeElementMatches(e.dom, dt.day)
                           /\ SomeElementMatches(e.month, dt.month)
                           /\ SomeElementMatches(e.dow, dt.dow))

C30_WitnessSundayMatches ==
    \E i \in CronChecks :
        /\ returned[i].result = "true"
        /\ returned[i].args.expression.dow = <<Exact(0)>>
        /\ returned[i].args.expression.minute = <<Exact(1), Step(2)>>

\* ------------------------------------------------------ market data claims
MarketReads ==
    {i \in DOMAIN returned : returned[i].tool \in {"query_market_data", "get_latest_price"}}

\* C31: a market query with an as_of time returns no row whose available_at
\* is later than as_of, whatever was saved and in whatever order.
C31_NoRowFromTheFuture ==
    \A i \in MarketReads :
        IsSome(returned[i].args.as_of) =>
            \A k \in DOMAIN returned[i].result :
                /\ Before(returned[i].result[k].available_at, Get(returned[i].args.as_of))
                /\ returned[i].result[k].ticker = returned[i].args.ticker

\* a row that became available a fraction of a second after as_of is in the
\* table and is left out, one that was available before is returned
C31_WitnessLaterRowLeftOut ==
    \E i \in MarketReads :
        /\ returned[i].args.as_of = Some([sec |-> 1, frac |-> 0])
        /\ Len(returned[i].result) = 1
        /\ returned[i].result[1].available_at = [sec |-> 0, frac |-> 5]
        /\ \E r \in market : /\ r.ticker = returned[i].args.ticker
                             /\ r.available_at = IsoFormat([sec |-> 1, frac |-> 5])

\* --------------------------------------------------- scheduled run claims
\* C32: when the final response of a scheduled ai.run_prompt run is exactly
\* [NO_REPLY], no text is sent through any output adapter for that run.
C32_NoTextForNoReply ==
    \A h \in handled :
        (h.handler = "output_dispatcher" /\ IsSome(h.event.payload)
           /\ h.event.payload[1].text = NoReply)
          => \A c \in texts : c.tid /= h.tid

\* C38: in a channel's history every assistant message with tool_calls is
\* immediately followed by exactly one tool-result message per call and by
\* nothing in between, also when a scheduled run for the channel appends its
\* final response while a chat turn is in its tool loop.  While the turn is
\* still executing the calls, the results so far are the ones that follow.
C38_ToolResultsFollowCalls ==
    \A c \in Channels : \A j \in DOMAIN history[c] :
        LET m == history[c][j]
            n == Len(m.tool_calls)
        IN (m.role = "assistant" /\ n > 0) =>
             /\ \A k \in 1..n :
                    j + k <= Len(history[c]) =>
                      /\ history[c][j + k].role = "tool"
                      /\ history[c][j + k].turn = m.turn
                      /\ m.tool_calls[k].id /= ""
                           => history[c][j + k].tool_call_id = m.tool_calls[k].id
             /\ j + n + 1 <= Len(history[c]) => history[c][j + n + 1].role /= "tool"
             /\ turns[m.turn].pc = "done" => j + n <= Len(history[c])

C33_MostRecentlyCreated ==
    \A i \in DOMAIN returned :
        (returned[i].tool \in {"confirm_trade", "skip_trade"}
           /\ IsSome(returned[i].result.signal_id))
          => \A j \in DOMAIN Matching(Upper(returned[i].args.ticker)) :
                Matching(Upper(returned[i].args.ticker))[j].created_at
                  <= Get(signals[Get(returned[i].result.signal_id)]).created_at

\* ------------------------------------------------------ task deletion claims
\* C34: a task deleted with delete_task while its handler is running stays
\* deleted: once the handler has returned no task record with that id exists,
\* and the task never fires again.
C34_DeletedStaysDeleted ==
    \A i \in DOMAIN returned :
        (returned[i].tool = "delete_task" /\ returned[i].result)
          => \/ taskFiles[returned[i].args.task_id] = None
             \/ \E l \in loops : l.pc = "running" /\ l.rest[1].id = returned[i].args.task_id

\* ------------------------------------------------------ scheduler tick claims
\* C35: a task whose cron_expression cannot be evaluated does not stop the
\* tick: every other enabled task that is due at the tick fires in it (it is
\* written with the tick's time, or the loop still has it on its list while
\* it awaits a handler), whatever its position in the listing order.
C35_OtherDueTasksFire ==
    \A i \in DOMAIN returned :
        returned[i].tool = "_check_tasks" =>
          \A k \in DOMAIN returned[i].result :
              LET task == returned[i].result[k]
                  at == returned[i].args.at
              IN (task.enabled /\ ~IsDueRaises(task, at) /\ IsDue(task, at))
                   => \/ /\ IsSome(taskFiles[task.id])
                         /\ Get(taskFiles[task.id]).last_run_at = Some(at)
                      \/ \E l \in loops :
                            /\ l.pc = "running" /\ l.at = Some(at)
                            /\ \E j \in DOMAIN l.rest : l.rest[j].id = task.id

StillOpen(p) == p.status \notin {"closed", "skipped"}

\* C37: opening a position never discards an open one: no operation of the
\* tracker replaces a stored position whose status is neither closed nor
\* skipped by a position of the same book and ticker for a different signal.
C37_OpenPositionNotReplaced ==
    [][ /\ \A k \in Tickers :
              (IsSome(aiBook[k]) /\ StillOpen(Get(aiBook[k])))
                => /\ IsSome(aiBook'[k])
                   /\ Get(aiBook'[k]).signal_id = Get(aiBook[k]).signal_id
        /\ \A f \in DOMAIN humanBook :
              StillOpen(humanBook[f])
                => /\ f \in DOMAIN humanBook'
                   /\ humanBook'[f].signal_id = humanBook[f].signal_id ]_vars

\* ------------------------------------------------------ tool execution claims
\* C40: every built-in tool name of TOOLS has an execution branch:
\* _execute_tool never answers "Unknown tool" for it.
C40_EveryToolHasABranch ==
    \A i \in DOMAIN returned :
        (returned[i].tool = "_execute_tool" /\ returned[i].args.name \in Tools)
          => returned[i].result /= "unknown"

====
